---- MODULE Spec2Model ----
(***************************************************************************)
(* Force-directed graph of linkdo-frontend: the simulation hook            *)
(* (src/src/hooks/useForceSimulation.ts), the per-node gesture handling    *)
(* (src/src/components/Graph/GraphNode.tsx) and the view state             *)
(* (src/src/components/Graph/Graph.tsx).                                   *)
(*                                                                         *)
(* Coordinates are pixels; the simulation moves its nodes on a coarse grid  *)
(* of them (CellSize apart).  Zoom and alpha are integers: zoom in tenths,  *)
(* alpha in 10^-9.  An optional number       (`x?: number`,                 *)
(* `fx: number | null`) is a sequence of length at most 1: None is          *)
(* undefined/null, Some(v) is the number v.                                 *)
(***************************************************************************)
EXTENDS Integers, Sequences, FiniteSets, TLC

VARIABLES
    nodes,          \* props.nodes: the input node list
    edges,          \* props.edges: the input edge list
    width,          \* props.width
    height,         \* props.height
    nodesRef,       \* nodesRef.current: the working set of the simulation
    simEdges,       \* edgesCopy of the simulation simulationRef points to
    simulationRef,  \* simulationRef.current
    hasCleanup,     \* the last effect run returned its cleanup function
    orphanRunning,  \* a simulation nothing refers to any more still runs its timer
    linkError,      \* forceLink threw "node not found"
    state,          \* the snapshot of the last tick (what is rendered)
    drag,           \* the node of the drag gesture in progress, if any
    moved,          \* history: the point of the last movePin of the gesture, if no
                    \* reconciliation came after it
    lastOp,         \* history: the operation that led to this state
    runStart,       \* history: the centre and the initial alpha the simulation was
                    \* created with, until the next operation on the hook
    viewState,      \* App: viewState, { zoom, pan }
    isPanning,      \* Graph: a background pan is in progress
    panStart,       \* Graph: panStart.current
    isAnimating,    \* Graph: the pan/zoom transition is switched on
    selectedNodeId, \* App: selectedNode?.id || null
    phase,          \* the pointer on a node: "idle", "down" (listeners on the document),
                    \* "up" (released, the click of the browser still to come)
    target,         \* the node of the GraphNode the pointer went down on
    hasMoved,       \* handleMouseDown: hasMoved
    start,          \* handleMouseDown: startX, startY
    autoPanInterval,\* handleMouseDown: the auto-pan interval and its (dx, dy), if any
    isDragging,     \* GraphNode: isDragging.current
    calls,          \* history: the callbacks the gesture has fired so far, in order
    reach,          \* history: how far from its start the pointer of the gesture went
    pointer,        \* history: the latest pointer position of the gesture, if any
    cooling,        \* a simulation left to itself: its alpha and the ticks it has emitted
    lastCenteredIdRef, \* Graph: lastCenteredIdRef.current
    prevExternalIdRef, \* Graph: prevExternalIdRef.current
    centerings,     \* history: how often centerOnNode has moved the pan since the
                    \* selected node id last changed (counted up to 2)
    store,          \* useTaskStore: tasks, edges, isDemoMode; the tables tasks, edges
                    \* and pendingOperations of the local database
    isOnline,       \* useOnlineStatus: isOnline
    linkingMode,    \* App: linkingMode, the id of the source node if any
    storeOp,        \* history: the last call into the store and what it was given
    now,            \* Date.now(), in the unit of the clock
    isSyncingRef,   \* useTaskStore: isSyncingRef.current
    syncPasses,     \* the calls of syncPendingOperations that are past the guard and
                    \* have not returned: who called, the operations read, how far
                    \* the loop is and (history) how each replay went
    miniMap,        \* history: the world point under the last click on the minimap and
                    \* the world point the click handler made of it, if any
    downView,       \* history: the view state at the pointer-down of the node gesture
                    \* in progress, if any
    edgeCalls       \* useTaskStore: the calls of addEdge that await api.createEdge

simVars == <<nodes, edges, width, height, nodesRef, simEdges, simulationRef,
             hasCleanup, orphanRunning, linkError, state, drag, moved, lastOp, runStart>>
viewVars == <<viewState, isPanning, panStart, isAnimating>>
gestureVars ==
    <<phase, target, hasMoved, start, autoPanInterval, isDragging, calls, reach, pointer>>
uiVars == <<viewVars, gestureVars, selectedNodeId>>

\* the refs of the effect that centres the view on the selected node, and its history
centerVars == <<lastCenteredIdRef, prevExternalIdRef, centerings>>
\* what neither the hook nor the pointer and view handlers touch
storeVars == <<store, isOnline, linkingMode, storeOp>>
\* the clock and what is in flight between two renders or two awaits
syncVars == <<now, isSyncingRef, syncPasses>>
flightVars == <<syncVars, miniMap, downView, edgeCalls>>
otherVars == <<cooling, storeVars, flightVars>>
restVars == <<otherVars, centerVars>>

vars == <<simVars, uiVars, restVars>>

-----------------------------------------------------------------------------
(* Bounds of the model *)

MaxCoord == 1
CellSize == 100
MaxPan == 16
CanvasSize == 2 * CellSize

(* Optional values *)
None == <<>>
Some(v) == <<v>>

Ids == {"a", "b"}
\* an id no node ever has: an edge naming it dangles
GhostId == "c"
Coord == {c * CellSize : c \in 0..MaxCoord}
Vel == {-CellSize, 0, CellSize}

\* positions a data source may deliver with a node: none, one on an axis, one off the axes
InputPositions ==
    {<<None, None>>, <<Some(0), Some(CellSize)>>, <<Some(CellSize), Some(CellSize)>>}
InputNode(i, p) == [id |-> i, x |-> p[1], y |-> p[2]]
InputNodeLists ==
    {<<>>}
    \cup {<<InputNode("a", p)>> : p \in InputPositions}
    \cup {<<InputNode("a", p), InputNode("b", q)>> :
              p \in InputPositions, q \in InputPositions \ {<<Some(0), Some(CellSize)>>}}

\* two nodes a server layout has placed at (100, 100) and (300, 100), on a canvas of
\* 800 by 600
SeededPair ==
    <<InputNode("a", <<Some(CellSize), Some(CellSize)>>),
      InputNode("b", <<Some(3 * CellSize), Some(CellSize)>>)>>
WideCanvas == <<8 * CellSize, 6 * CellSize>>

\* the lists of the runs that follow one node through its whole life
SoloNodeLists == {l \in InputNodeLists : Len(l) <= 1}

Edge(s, t) == [source |-> s, target |-> t]
InputEdgeLists ==
    {<<>>, <<Edge("a", "b")>>, <<Edge("a", "b"), Edge("a", GhostId)>>,
     <<Edge(GhostId, "b"), Edge("b", "a")>>}
\* the edge list of the runs in which only the nodes and the canvas change
FixedEdgeLists == {<<Edge("a", "b")>>}
\* the canvas before it is measured, and measured
Sizes == {<<0, 0>>, <<CanvasSize, CanvasSize>>}

-----------------------------------------------------------------------------
(* Sequence helpers *)

IdsOf(ns) == {ns[i].id : i \in 1..Len(ns)}

\* Array.prototype.find on the id: the first match, None when there is none
FindIndex(ns, id) ==
    IF \E i \in 1..Len(ns) : ns[i].id = id
    THEN CHOOSE i \in 1..Len(ns) : ns[i].id = id /\ \A j \in 1..(i - 1) : ns[j].id # id
    ELSE 0

RECURSIVE FilterSeq(_, _)
FilterSeq(s, keep) ==
    IF s = <<>> THEN <<>>
    ELSE IF Head(s) \in keep THEN <<Head(s)>> \o FilterSeq(Tail(s), keep)
         ELSE FilterSeq(Tail(s), keep)

-----------------------------------------------------------------------------
(* The simulation object of d3-force, as far as the hook drives it *)

\* alpha = 1 and alpha = 0.3, the two values of initialAlpha
AlphaOne == 1000000000
AlphaCool == 300000000

\* A point as the mean of `per` points: (x / per, y / per).
MeanPoint(sx, sy, n) == [x |-> sx, y |-> sy, per |-> n]
samePoint(p, q) == p.x * q.per = q.x * p.per /\ p.y * q.per = q.y * p.per

NoSimulation == [exists |-> FALSE, running |-> FALSE, alphaTarget |-> 0, cancelled |-> FALSE]
NewSimulation == [exists |-> TRUE, running |-> TRUE, alphaTarget |-> 0, cancelled |-> FALSE]

\* simulation.stop() called because the inputs changed
StopSimulation(sim) ==
    IF sim.exists THEN [sim EXCEPT !.running = FALSE, !.cancelled = TRUE] ELSE sim

InitHook ==
    /\ nodes = <<>>
    /\ edges = <<>>
    /\ width = 0
    /\ height = 0
    /\ nodesRef = <<>>
    /\ simEdges = <<>>
    /\ simulationRef = NoSimulation
    /\ hasCleanup = FALSE
    /\ orphanRunning = FALSE
    /\ linkError = FALSE
    /\ state = [nodes |-> <<>>, edges |-> <<>>]
    /\ drag = None
    /\ moved = None
    /\ lastOp = "init"
    /\ runStart = None

Origin == <<0, 0>>
\* zoom 1, in tenths
ZoomOne == 10

InitUI ==
    /\ viewState = [zoom |-> ZoomOne, pan |-> Origin]
    /\ isPanning = FALSE
    /\ panStart = Origin
    /\ isAnimating = FALSE
    /\ selectedNodeId = None
    /\ phase = "idle"
    /\ target = None
    /\ hasMoved = FALSE
    /\ start = Origin
    /\ autoPanInterval = None
    /\ isDragging = FALSE
    /\ calls = <<>>
    /\ reach = "none"
    /\ pointer = None
    /\ lastCenteredIdRef = None
    /\ prevExternalIdRef = None
    /\ centerings = 0

\* a simulation started at alpha = start, no tick emitted yet
Cooling(a) == [start |-> a, alpha |-> a, ticks |-> 0, stopped |-> FALSE]

\* useState of useTaskStore before any load, over an empty local database
EmptyStore ==
    [tasks |-> <<>>, edges |-> <<>>, isDemoMode |-> FALSE,
     dbTasks |-> <<>>, dbEdges |-> <<>>, pendingOperations |-> <<>>]

\* nothing in flight
InitFlight ==
    /\ now = 1
    /\ isSyncingRef = FALSE
    /\ syncPasses = <<>>
    /\ miniMap = None
    /\ downView = None
    /\ edgeCalls = <<>>

InitStore ==
    /\ store = EmptyStore
    /\ isOnline = TRUE
    /\ linkingMode = None
    /\ storeOp = None
    /\ InitFlight

InitRest == cooling = Cooling(AlphaOne) /\ InitStore

Init == InitHook /\ InitUI /\ InitRest

-----------------------------------------------------------------------------
(* The effect of useForceSimulation: reconciliation of the working set *)

\* the incoming node carries a position the hook takes for a new one
hasNewPosition(n) ==
    /\ n.x # None
    /\ n.y # None
    /\ n.x # Some(0)
    /\ n.y # Some(0)

\* a carry-over that forgets the velocity
nodesCopyDropVelocity(newNodes, prev) ==
    [i \in 1..Len(newNodes) |->
        LET n == newNodes[i]
            k == FindIndex(prev, n.id)
        IN  IF k # 0 /\ ~hasNewPosition(n)
            THEN [id |-> n.id, x |-> Some(prev[k].x), y |-> Some(prev[k].y),
                  vx |-> 0, vy |-> 0, fx |-> prev[k].fx, fy |-> prev[k].fy]
            ELSE [id |-> n.id, x |-> n.x, y |-> n.y,
                  vx |-> 0, vy |-> 0, fx |-> None, fy |-> None]]

\* nodes.map(...): one working copy per incoming node, x and y still optional
nodesCopy(newNodes, prev) ==
    [i \in 1..Len(newNodes) |->
        LET n == newNodes[i]
            k == FindIndex(prev, n.id)
        IN  IF k # 0 /\ ~hasNewPosition(n)
            THEN [id |-> n.id, x |-> Some(prev[k].x), y |-> Some(prev[k].y),
                  vx |-> prev[k].vx, vy |-> prev[k].vy,
                  fx |-> prev[k].fx, fy |-> prev[k].fy]
            ELSE [id |-> n.id, x |-> n.x, y |-> n.y,
                  vx |-> 0, vy |-> 0, fx |-> None, fy |-> None]]

\* d3-force places a node without a position on a spiral, by its index;
\* quantised to the grid: index 0 lies on the x axis (y = 0), the others off both axes
phyllotaxis(i) == IF i = 0 THEN <<CellSize, 0>> ELSE <<CellSize, CellSize>>

\* forceSimulation(nodesCopy): d3-force snaps a pinned node to its pin and gives
\* every node without a position its place on the spiral
initializeNodes(copy) ==
    [i \in 1..Len(copy) |->
        LET n == copy[i]
            x1 == IF n.fx # None THEN n.fx ELSE n.x
            y1 == IF n.fy # None THEN n.fy ELSE n.y
            p == IF x1 = None \/ y1 = None THEN phyllotaxis(i - 1) ELSE <<x1[1], y1[1]>>
        IN  [id |-> n.id, x |-> p[1], y |-> p[2], vx |-> n.vx, vy |-> n.vy,
             fx |-> n.fx, fy |-> n.fy]]

\* a filter that looks at the source of an edge only
validEdgesSourceOnly(newEdges, copy) ==
    FilterSeq(newEdges,
              {e \in {newEdges[j] : j \in 1..Len(newEdges)} : e.source \in IdsOf(copy)})

\* edges.filter(...): the edges both of whose ends are ids of working copies
validEdges(newEdges, copy) ==
    FilterSeq(newEdges,
              {e \in {newEdges[j] : j \in 1..Len(newEdges)} :
                  e.source \in IdsOf(copy) /\ e.target \in IdsOf(copy)})

\* forceLink(edgesCopy).id(d => d.id) throws when an edge names no node
linkThrows(es, copy) ==
    \E j \in 1..Len(es) : es[j].source \notin IdsOf(copy) \/ es[j].target \notin IdsOf(copy)

RECURSIVE sumX(_)
sumX(ns) == IF ns = <<>> THEN 0 ELSE Head(ns).x[1] + sumX(Tail(ns))
RECURSIVE sumY(_)
sumY(ns) == IF ns = <<>> THEN 0 ELSE Head(ns).y[1] + sumY(Tail(ns))

\* nodesCopy.filter(n => n.x !== undefined && n.y !== undefined)
positionedNodes(copy) ==
    FilterSeq(copy, {n \in {copy[i] : i \in 1..Len(copy)} : n.x # None /\ n.y # None})

\* a centre that is always the middle of the canvas
centerOfCanvas(copy, w, h) == MeanPoint(w, h, 2)

\* centerX, centerY: the middle of the canvas, or the mean of the working copies that
\* have a position before d3-force places the others
centerOf(copy, w, h) ==
    LET pos == positionedNodes(copy)
    IN  IF Len(pos) > 0 THEN MeanPoint(sumX(pos), sumY(pos), Len(pos))
        ELSE MeanPoint(w, h, 2)

\* nodesCopy.some(n => n.x !== undefined && n.y !== undefined), evaluated after
\* forceSimulation(nodesCopy) has placed every node: placed is the working set
hasPositionedNodes(placed) ==
    \E i \in 1..Len(placed) : placed[i].x \in Int /\ placed[i].y \in Int

initialAlpha(placed) == IF hasPositionedNodes(placed) THEN AlphaCool ELSE AlphaOne

\* the early return of the effect
noLayout(newNodes, w, h) == Len(newNodes) = 0 \/ w = 0 \/ h = 0

\* A render with new props: React runs the cleanup of the previous effect run,
\* then the effect.
Render(newNodes, newEdges, w, h) ==
    LET cleaned == IF hasCleanup THEN StopSimulation(simulationRef) ELSE simulationRef
    IN  /\ nodes' = newNodes
        /\ edges' = newEdges
        /\ width' = w
        /\ height' = h
        /\ IF noLayout(newNodes, w, h)
           THEN /\ simulationRef' = cleaned
                /\ hasCleanup' = FALSE
                /\ runStart' = None
                /\ UNCHANGED <<nodesRef, simEdges, orphanRunning, linkError, state>>
           ELSE LET copy == nodesCopy(newNodes, nodesRef)
                    edgesCopy == validEdges(newEdges, copy)
                    stopped == StopSimulation(cleaned)
                IN  /\ nodesRef' = initializeNodes(copy)
                    /\ IF linkThrows(edgesCopy, copy)
                       THEN \* the effect dies in forceLink: the new simulation is
                            \* running and nothing refers to it
                            /\ linkError' = TRUE
                            /\ simulationRef' = stopped
                            /\ hasCleanup' = FALSE
                            /\ orphanRunning' = TRUE
                            /\ runStart' = None
                            /\ UNCHANGED simEdges
                       ELSE /\ simulationRef' = NewSimulation
                            /\ runStart' = Some([center |-> centerOf(copy, w, h),
                                                 initialAlpha |->
                                                    initialAlpha(initializeNodes(copy))])
                            /\ simEdges' = edgesCopy
                            /\ hasCleanup' = TRUE
                            /\ orphanRunning' = (orphanRunning \/ stopped.running)
                            /\ UNCHANGED linkError
                    /\ UNCHANGED state
        /\ moved' = None
        /\ lastOp' = "render"
        /\ UNCHANGED restVars
        /\ UNCHANGED <<drag, uiVars>>

Reconcile ==
    \E newNodes \in SoloNodeLists, newEdges \in FixedEdgeLists, size \in Sizes :
        Render(newNodes, newEdges, size[1], size[2])

-----------------------------------------------------------------------------
(* The view state (Graph.tsx; the state itself lives in App) and the centering *)

\* The limits and steps of the zoom come from the constants module; zoom is in tenths.
MIN_ZOOM == 3
MAX_ZOOM == 30
ZOOM_STEP == 1
ZOOM_BUTTON_STEP == 2
\* pixels
CENTER_SKIP_DISTANCE == 10

Min(a, b) == IF a < b THEN a ELSE b
Max(a, b) == IF a > b THEN a ELSE b

\* { ...currentState, ...updates }: cur is the { zoom, pan } of the render the caller
\* was created in
updateViewState(cur, updates) ==
    [k \in {"zoom", "pan"} |-> IF k \in DOMAIN updates THEN updates[k] ELSE cur[k]]

\* onViewStateChange = setViewState: of the states set while one handler runs, the
\* last one is the state of the next render
onViewStateChange(nextStates) == nextStates[Len(nextStates)]

\* setZoom and setPan with the value the caller computed from the zoom / pan of cur
setZoom(cur, newZoom) == updateViewState(cur, [zoom |-> newZoom])
setPan(cur, newPan) == updateViewState(cur, [pan |-> newPan])

\* the pan that shows the node in the middle of the canvas
centerPan(node, view, w, h) ==
    <<w \div 2 - (node.x * view.zoom) \div 10, h \div 2 - (node.y * view.zoom) \div 10>>

\* centerOnNode moves the pan: the node has coordinates (0 counts as none) and the pan
\* is not yet within CENTER_SKIP_DISTANCE of the target
centers(node, view, w, h) ==
    /\ node.x # 0
    /\ node.y # 0
    /\ LET p == centerPan(node, view, w, h)
           ex == p[1] - view.pan[1]
           ey == p[2] - view.pan[2]
       IN  ex * ex + ey * ey >= CENTER_SKIP_DISTANCE * CENTER_SKIP_DISTANCE

\* the effect on the selected node id without the record of the last centering
selectionEffectUnguarded(id, prev, last, shown, view, w, h) ==
    LET last1 == IF id # prev THEN None ELSE last
        k == IF id = None THEN 0 ELSE FindIndex(shown, id[1])
        valid == k # 0 /\ shown[k].x # 0 /\ shown[k].y # 0
        runs == id # None /\ valid
        moves == runs /\ centers(shown[k], view, w, h)
    IN  [prev |-> id,
         last |-> IF runs THEN id ELSE last1,
         view |-> IF moves
                  THEN onViewStateChange(<<setPan(view, centerPan(shown[k], view, w, h))>>)
                  ELSE view,
         centred |-> moves]

\* useEffect(..., [externalSelectedId, nodes, centerOnNode]): a changed id clears the
\* record of the last centering; a selected node that is shown with coordinates and is
\* not the one of the record is centred on, and recorded
selectionEffect(id, prev, last, shown, view, w, h) ==
    LET last1 == IF id # prev THEN None ELSE last
        k == IF id = None THEN 0 ELSE FindIndex(shown, id[1])
        valid == k # 0 /\ shown[k].x # 0 /\ shown[k].y # 0
        runs == id # None /\ last1 # id /\ valid
        moves == runs /\ centers(shown[k], view, w, h)
    IN  [prev |-> id,
         last |-> IF runs THEN id ELSE last1,
         view |-> IF moves
                  THEN onViewStateChange(<<setPan(view, centerPan(shown[k], view, w, h))>>)
                  ELSE view,
         centred |-> moves]

\* The render of Graph after a handler has left the selected id sel, the view state
\* view and the transition flag anim, and has itself centred own times; shown are the
\* nodes of the hook in that render.  The effect on the selected id runs after it.
Rendered(sel, shown, view, anim, own) ==
    LET e == selectionEffect(sel, prevExternalIdRef, lastCenteredIdRef, shown, view,
                             width, height)
        n == (IF sel = selectedNodeId THEN centerings ELSE 0)
             + own + (IF e.centred THEN 1 ELSE 0)
    IN  /\ selectedNodeId' = sel
        /\ viewState' = e.view
        /\ isAnimating' = (anim \/ e.centred)
        /\ prevExternalIdRef' = e.prev
        /\ lastCenteredIdRef' = e.last
        /\ centerings' = Min(n, 2)

-----------------------------------------------------------------------------
(* One step of the d3-force timer of the simulation simulationRef points to *)

\* the integrator on one axis: a pinned coordinate goes to its pin with velocity 0,
\* a free one moves by the velocity v the forces leave it with
integrate(pos, pin, v) == IF pin = None THEN <<pos + v, v>> ELSE <<pin[1], 0>>

\* the velocities the forces (link, charge, centre, collision) may leave a node with
Forces(n) ==
    {v \in Vel \X Vel :
        /\ integrate(n.x, n.fx, v[1])[1] \in Coord
        /\ integrate(n.y, n.fy, v[2])[1] \in Coord}

\* nodesCopy.map(n => ({ ...n })): the copies handed to the renderer, with the fields
\* the renderer reads
snapshot(ns) == [i \in 1..Len(ns) |-> [id |-> ns[i].id, x |-> ns[i].x, y |-> ns[i].y]]

\* alpha falls below alphaMin only while alphaTarget is below it
AlphaMin == 1000000
mayCool(sim) == sim.alphaTarget < AlphaMin

Tick ==
    /\ simulationRef.running
    /\ \E f \in [1..Len(nodesRef) -> Vel \X Vel], cooled \in BOOLEAN :
        /\ \A i \in 1..Len(nodesRef) : f[i] \in Forces(nodesRef[i])
        /\ cooled => mayCool(simulationRef)
        /\ nodesRef' = [i \in 1..Len(nodesRef) |->
                LET n == nodesRef[i]
                    ix == integrate(n.x, n.fx, f[i][1])
                    iy == integrate(n.y, n.fy, f[i][2])
                IN  [n EXCEPT !.x = ix[1], !.vx = ix[2], !.y = iy[1], !.vy = iy[2]]]
        \* simulation.on('tick'): setState with copies of the working set
        /\ state' = [nodes |-> snapshot(nodesRef'), edges |-> simEdges]
        /\ simulationRef' = [simulationRef EXCEPT !.running = ~cooled]
    \* the render of the new snapshot
    /\ Rendered(selectedNodeId, state'.nodes, viewState, isAnimating, 0)
    /\ lastOp' = "tick"
    /\ UNCHANGED otherVars
    /\ runStart' = None
    /\ UNCHANGED <<nodes, edges, width, height, simEdges, hasCleanup, orphanRunning,
                   linkError, drag, moved, isPanning, panStart, gestureVars>>

-----------------------------------------------------------------------------
(* The cooling of a simulation nobody touches: alphaTarget 0, no pin *)

\* alphaDecay(0.02): alpha moves towards its target by a 50th of the distance
AlphaDecayInverse == 50

\* a decay of 0.01
decayStepSlow(alpha, alphaTarget) == alpha + ((alphaTarget - alpha) \div (2 * AlphaDecayInverse))

\* d3-force tick: alpha += (alphaTarget - alpha) * alphaDecay
decayStep(alpha, alphaTarget) == alpha + ((alphaTarget - alpha) \div AlphaDecayInverse)

\* d3-force step: one tick is emitted, then the timer stops if alpha < alphaMin
coolingTick ==
    /\ ~cooling.stopped
    /\ LET a == decayStep(cooling.alpha, 0)
       IN  cooling' = [cooling EXCEPT !.alpha = a, !.ticks = @ + 1, !.stopped = (a < AlphaMin)]
    /\ UNCHANGED <<simVars, uiVars, centerVars, storeVars, flightVars>>

InitDecay ==
    /\ InitHook
    /\ InitUI
    /\ cooling \in {Cooling(AlphaOne), Cooling(AlphaCool)}
    /\ InitStore

NextDecay == coolingTick

SpecDecay == InitDecay /\ [][NextDecay]_vars

-----------------------------------------------------------------------------
(* The pin API of the hook *)

AlphaTargetDrag == 300000000

setPin(ns, nodeId, px, py) ==
    [i \in 1..Len(ns) |->
        IF i = FindIndex(ns, nodeId) THEN [ns[i] EXCEPT !.fx = px, !.fy = py] ELSE ns[i]]

\* the three operations take simulationRef.current and nodesRef.current and give
\* them back as [simulation, nodes]
handleDragStart(sim, ns, nodeId) ==
    IF ~sim.exists \/ Len(ns) = 0
    THEN [simulation |-> sim, nodes |-> ns]
    ELSE [simulation |-> [sim EXCEPT !.alphaTarget = AlphaTargetDrag, !.running = TRUE],
          nodes |-> LET k == FindIndex(ns, nodeId)
                    IN  IF k = 0 THEN ns
                        ELSE setPin(ns, nodeId, Some(ns[k].x), Some(ns[k].y))]

\* a movePin that updates one axis of the pin only
handleDragOneAxis(sim, ns, nodeId, x, y) ==
    [simulation |-> sim,
     nodes |-> IF Len(ns) = 0 \/ FindIndex(ns, nodeId) = 0 THEN ns
               ELSE setPin(ns, nodeId, Some(x), ns[FindIndex(ns, nodeId)].fy)]

handleDrag(sim, ns, nodeId, x, y) ==
    [simulation |-> sim,
     nodes |-> IF Len(ns) = 0 THEN ns ELSE setPin(ns, nodeId, Some(x), Some(y))]

handleDragEnd(sim, ns, nodeId) ==
    IF ~sim.exists \/ Len(ns) = 0
    THEN [simulation |-> sim, nodes |-> ns]
    ELSE [simulation |-> [sim EXCEPT !.alphaTarget = 0],
          nodes |-> setPin(ns, nodeId, None, None)]

\* simulationRef.current and nodesRef.current after an operation of the pin API
hookBecomes(h) == simulationRef' = h.simulation /\ nodesRef' = h.nodes

hookRest == <<nodes, edges, width, height, simEdges, hasCleanup, orphanRunning,
              linkError, state>>

\* The interaction layer drives the pin API one gesture at a time; a gesture starts on
\* a node the canvas shows.
BeginPin(n) ==
    /\ drag = None
    /\ width # 0 /\ height # 0
    /\ n \in IdsOf(state.nodes)
    /\ hookBecomes(handleDragStart(simulationRef, nodesRef, n))
    /\ drag' = Some(n)
    /\ moved' = None
    /\ lastOp' = "beginPin"
    /\ UNCHANGED restVars
    /\ runStart' = None
    /\ UNCHANGED <<hookRest, uiVars>>

MovePin(n, x, y) ==
    /\ drag = Some(n)
    /\ hookBecomes(handleDrag(simulationRef, nodesRef, n, x, y))
    /\ moved' = <<x, y>>
    /\ lastOp' = "movePin"
    /\ UNCHANGED restVars
    /\ runStart' = None
    /\ UNCHANGED <<drag, hookRest, uiVars>>

EndPin(n) ==
    /\ drag = Some(n)
    /\ hookBecomes(handleDragEnd(simulationRef, nodesRef, n))
    /\ drag' = None
    /\ moved' = None
    /\ lastOp' = "endPin"
    /\ UNCHANGED restVars
    /\ runStart' = None
    /\ UNCHANGED <<hookRest, uiVars>>

Next ==
    \/ Reconcile
    \/ Tick
    \/ \E n \in Ids : BeginPin(n)
    \/ \E n \in Ids, x \in Coord, y \in Coord : MovePin(n, x, y)
    \/ \E n \in Ids : EndPin(n)

Spec == Init /\ [][Next]_vars

\* The reconciliations alone, over every node list and edge list of the model.
ReconcileGraph ==
    \E newNodes \in InputNodeLists \cup {SeededPair}, newEdges \in InputEdgeLists,
       size \in Sizes \cup {WideCanvas} :
        Render(newNodes, newEdges, size[1], size[2])

NextGraph == ReconcileGraph

SpecGraph == Init /\ [][NextGraph]_vars

\* One node through its whole life, with the canvas measured, resized and hidden and
\* the edge list replaced around it.
Rebuild ==
    \E newNodes \in SoloNodeLists, newEdges \in {<<>>, <<Edge("a", "b")>>},
       size \in Sizes \cup {WideCanvas} :
        Render(newNodes, newEdges, size[1], size[2])

NextRebuild ==
    \/ Rebuild
    \/ Tick
    \/ BeginPin("a")
    \/ \E x \in Coord : MovePin("a", x, 0)
    \/ EndPin("a")

SpecRebuild == Init /\ [][NextRebuild]_vars

-----------------------------------------------------------------------------
(* The handlers of zoom and pan (Graph.tsx) *)

\* a wheel step without the lower limit
wheelZoomNoFloor(prev, deltaY) ==
    Min(prev + (IF deltaY > 0 THEN -ZOOM_STEP ELSE ZOOM_STEP), MAX_ZOOM)

wheelZoom(prev, deltaY) ==
    Min(Max(prev + (IF deltaY > 0 THEN -ZOOM_STEP ELSE ZOOM_STEP), MIN_ZOOM), MAX_ZOOM)

zoomIn(prev) == Min(prev + ZOOM_BUTTON_STEP, MAX_ZOOM)
zoomOut(prev) == Max(prev - ZOOM_BUTTON_STEP, MIN_ZOOM)

DeltaY == {-1, 0, 1}
\* the pointer positions of a background pan
PanClients == {<<0, 0>>, <<8, 0>>, <<0, 8>>}
inPanRange(p) == p[1] \in -MaxPan..MaxPan /\ p[2] \in -MaxPan..MaxPan

\* everything of the hook but the history of the last operation
hookState == <<nodes, edges, width, height, nodesRef, simEdges, simulationRef,
               hasCleanup, orphanRunning, linkError, state, drag, moved, runStart>>

handleWheel(deltaY) ==
    /\ Rendered(selectedNodeId, state.nodes,
                onViewStateChange(<<setZoom(viewState, wheelZoom(viewState.zoom, deltaY))>>),
                isAnimating, 0)
    /\ lastOp' = "wheel"
    /\ UNCHANGED otherVars
    /\ UNCHANGED hookState
    /\ UNCHANGED <<isPanning, panStart, gestureVars>>

onZoomIn ==
    /\ Rendered(selectedNodeId, state.nodes,
                onViewStateChange(<<setZoom(viewState, zoomIn(viewState.zoom))>>),
                isAnimating, 0)
    /\ lastOp' = "zoomIn"
    /\ UNCHANGED otherVars
    /\ UNCHANGED hookState
    /\ UNCHANGED <<isPanning, panStart, gestureVars>>

onZoomOut ==
    /\ Rendered(selectedNodeId, state.nodes,
                onViewStateChange(<<setZoom(viewState, zoomOut(viewState.zoom))>>),
                isAnimating, 0)
    /\ lastOp' = "zoomOut"
    /\ UNCHANGED otherVars
    /\ UNCHANGED hookState
    /\ UNCHANGED <<isPanning, panStart, gestureVars>>

\* setZoom(1); setPan({ x: 0, y: 0 }): both calls start from the zoom and pan of the
\* render handleResetView was created in
handleResetView ==
    /\ Rendered(selectedNodeId, state.nodes,
                onViewStateChange(<<setZoom(viewState, ZoomOne), setPan(viewState, Origin)>>),
                TRUE, 0)
    /\ lastOp' = "reset"
    /\ UNCHANGED otherVars
    /\ UNCHANGED hookState
    /\ UNCHANGED <<isPanning, panStart, gestureVars>>

\* setTimeout(() => setIsAnimating(false), ANIMATION_DURATION)
animationEnd ==
    /\ isAnimating
    /\ isAnimating' = FALSE
    /\ lastOp' = "animationEnd"
    /\ UNCHANGED restVars
    /\ UNCHANGED hookState
    /\ UNCHANGED <<viewState, isPanning, panStart, gestureVars, selectedNodeId>>

\* a pointer-down anywhere starts a pan
panStartsAnywhere(tagName, stopped) == TRUE

\* onMouseDown of the svg runs handlePanStart when the event gets there (the handler of
\* a node stops it) and handlePanStart takes it when it is on the svg or on a rect
panStarts(tagName, stopped) == ~stopped /\ tagName \in {"svg", "rect"}

\* a pointer-down on the background
handlePanStart(client) ==
    /\ phase = "idle"
    /\ ~isPanning
    /\ panStarts("svg", FALSE)
    /\ isPanning' = TRUE
    /\ panStart' = <<client[1] - viewState.pan[1], client[2] - viewState.pan[2]>>
    /\ calls' = <<>>
    /\ lastOp' = "panStart"
    /\ UNCHANGED restVars
    /\ UNCHANGED hookState
    /\ UNCHANGED <<viewState, isAnimating, selectedNodeId, phase, target, hasMoved, start,
                   autoPanInterval, isDragging, reach, pointer>>

handlePanMove(client) ==
    /\ isPanning
    /\ LET newPan == <<client[1] - panStart[1], client[2] - panStart[2]>>
       IN  /\ inPanRange(newPan)
           /\ Rendered(selectedNodeId, state.nodes,
                       onViewStateChange(<<setPan(viewState, newPan)>>), isAnimating, 0)
    /\ calls' = <<"setPan">>
    /\ lastOp' = "panMove"
    /\ UNCHANGED otherVars
    /\ UNCHANGED hookState
    /\ UNCHANGED <<isPanning, panStart, phase, target, hasMoved, start, autoPanInterval,
                   isDragging, reach, pointer>>

\* onMouseUp and onMouseLeave of the svg during a pan; after the pointer went up over
\* the svg (leave = FALSE) the click of the browser is still to come
handlePanEnd ==
    /\ isPanning
    /\ isPanning' = FALSE
    /\ \E leave \in BOOLEAN : phase' = IF leave THEN "idle" ELSE "upOnBackground"
    /\ lastOp' = "panEnd"
    /\ UNCHANGED restVars
    /\ UNCHANGED hookState
    /\ UNCHANGED <<viewState, panStart, isAnimating, selectedNodeId, target, hasMoved,
                   start, autoPanInterval, isDragging, calls, reach, pointer>>

\* handleBackgroundClick: the click the browser delivers to the svg after the pointer
\* went up on the background; onNodeSelect(null) is setSelectedNode(null) in App
handleBackgroundClick ==
    /\ phase = "upOnBackground"
    /\ phase' = "idle"
    /\ IF isPanning
       THEN UNCHANGED <<viewState, isAnimating, selectedNodeId, centerVars>>
       ELSE Rendered(None, state.nodes, viewState, isAnimating, 0)
    /\ lastOp' = "backgroundClick"
    /\ UNCHANGED otherVars
    /\ UNCHANGED hookState
    /\ UNCHANGED <<isPanning, panStart, target, hasMoved, start, autoPanInterval,
                   isDragging, calls, reach, pointer>>

NextView ==
    \/ \E deltaY \in DeltaY : handleWheel(deltaY)
    \/ onZoomIn
    \/ onZoomOut
    \/ handleResetView
    \/ animationEnd
    \/ \E client \in PanClients : handlePanStart(client)
    \/ \E client \in PanClients : handlePanMove(client)
    \/ handlePanEnd
    \/ handleBackgroundClick

SpecView == Init /\ [][NextView]_vars

-----------------------------------------------------------------------------
(* The minimap (MiniMap).  Its overlay coordinates are fractions of a pixel: a
   coordinate is the numerator over the denominator 5 * sd of the frame. *)

\* bounds and scale of the minimap over the nodes ns, in fifths of a pixel: the least x
\* and y less the padding (a fifth of the extent, 100 where the extent is 0), and
\* scale = sn / sd, the lesser of 110 / worldWidth and 60 / worldHeight
miniMapFrame(ns) ==
    LET xs == {ns[i].x : i \in 1..Len(ns)}
        ys == {ns[i].y : i \in 1..Len(ns)}
        lo(c) == CHOOSE v \in c : \A u \in c : v <= u
        hi(c) == CHOOSE v \in c : \A u \in c : v >= u
        padding5(c) == IF hi(c) = lo(c) THEN 500 ELSE hi(c) - lo(c)
        min5(c) == IF ns = <<>> THEN 0 ELSE 5 * lo(c) - padding5(c)
        world5(c) == IF ns = <<>> THEN 2500 ELSE 5 * (hi(c) - lo(c)) + 2 * padding5(c)
        byWidth == 550 * world5(ys) <= 300 * world5(xs)
    IN  [minX5 |-> min5(xs), minY5 |-> min5(ys),
         sn |-> IF byWidth THEN 550 ELSE 300,
         sd |-> IF byWidth THEN world5(xs) ELSE world5(ys)]

\* toMiniMapX / toMiniMapY without the padding of the overlay
toMiniMapUnpadded(p, f) ==
    <<(5 * p[1] - f.minX5) * f.sn, (5 * p[2] - f.minY5) * f.sn>>

\* toMiniMapX, toMiniMapY: (x - bounds.minX) * scale + padding
toMiniMap(p, f) ==
    <<(5 * p[1] - f.minX5) * f.sn + 20 * 5 * f.sd,
      (5 * p[2] - f.minY5) * f.sn + 20 * 5 * f.sd>>

\* handleClick of the minimap: world = (click - padding) / scale + bounds.min, a
\* fraction n / d, and the pan containerSize / 2 - world * zoom, in whole pixels
handleMiniMapClick(click, f, view, w, h) ==
    LET worldX == [n |-> click[1] - 20 * 5 * f.sd + f.minX5 * f.sn, d |-> 5 * f.sn]
        worldY == [n |-> click[2] - 20 * 5 * f.sd + f.minY5 * f.sn, d |-> 5 * f.sn]
    IN  [world |-> <<worldX, worldY>>,
         pan |-> <<w \div 2 - (worldX.n * view.zoom) \div (worldX.d * 10),
                   h \div 2 - (worldY.n * view.zoom) \div (worldY.d * 10)>>]

\* the world points a click on the minimap may be over
WorldPoints == {<<x, y>> : x \in {-CellSize} \cup Coord, y \in Coord}

\* a click on the minimap where it shows the world point p: onPanChange = setPan
MiniMapClick(p) ==
    LET f == miniMapFrame(state.nodes)
        r == handleMiniMapClick(toMiniMap(p, f), f, viewState, width, height)
    IN  /\ Rendered(selectedNodeId, state.nodes,
                    onViewStateChange(<<setPan(viewState, r.pan)>>), isAnimating, 0)
        /\ miniMap' = Some([point |-> p, world |-> r.world])
        /\ lastOp' = "miniMapClick"
        /\ UNCHANGED <<cooling, storeVars, syncVars, downView, edgeCalls>>
        /\ UNCHANGED <<hookState, isPanning, panStart, gestureVars>>

-----------------------------------------------------------------------------
(* The task store (useTaskStore.ts) over the local database (db/index.ts).  Every
   call into the store is one step, its awaits included. *)

MaxPending == 2
MaxTasks == 3

\* a task: its id, whether its status is done, and its optional x and y
Task(id, done) == [id |-> id, done |-> done, x |-> None, y |-> None]
\* an edge as the server returns it, and as the store builds it when offline
\* `${src}:${tgt}`
EdgeKey(s, t) ==
    CASE s = "a" /\ t = "b" -> "a:b"
      [] s = "b" /\ t = "a" -> "b:a"
      [] OTHER -> "-"
ServerEdge(s, t) == [id |-> EdgeKey(s, t), source |-> s, target |-> t]
LocalEdge(s, t) == [source |-> s, target |-> t]
Op(type, entity, entityId) == [type |-> type, entity |-> entity, entityId |-> entityId]

\* addPendingOperation for each of ops in turn:
\* db.pendingOperations.add({ ...operation, timestamp: Date.now() }).  The key ++id
\* only tells the operations apart: it is the least number that no operation of the
\* table, and none that a sync pass has read, carries.
RECURSIVE addPendingOperation(_, _)
addPendingOperation(queue, ops) ==
    IF ops = <<>> THEN queue
    ELSE LET known == {queue[i].id : i \in 1..Len(queue)}
                        \cup UNION {{syncPasses[k].pending[i].id :
                                        i \in 1..Len(syncPasses[k].pending)} :
                                    k \in 1..Len(syncPasses)}
             id == CHOOSE k \in 1..(Cardinality(known) + 1) :
                        k \notin known /\ \A j \in 1..(k - 1) : j \in known
             op == [type |-> Head(ops).type, entity |-> Head(ops).entity,
                    entityId |-> Head(ops).entityId, id |-> id, timestamp |-> now]
         IN  addPendingOperation(Append(queue, op), Tail(ops))

\* getPendingOperations: orderBy('timestamp'), the operations of one timestamp in the
\* order of their keys, which is the order they were added in
RECURSIVE getPendingOperations(_)
getPendingOperations(queue) ==
    IF queue = <<>> THEN <<>>
    ELSE LET first == CHOOSE i \in 1..Len(queue) :
                        /\ \A j \in 1..Len(queue) : queue[i].timestamp <= queue[j].timestamp
                        /\ \A j \in 1..(i - 1) : queue[j].timestamp > queue[i].timestamp
         IN  <<queue[first]>>
                \o getPendingOperations(SubSeq(queue, 1, first - 1)
                                            \o SubSeq(queue, first + 1, Len(queue)))

sampleNodes == <<Task("a", FALSE), Task("b", FALSE)>>
sampleEdges == <<LocalEdge("a", "b")>>

\* what api.fetchGraphData may answer; Failed is a rejected request
Failed == [rejected |-> TRUE]
ServerReplies ==
    {[tasks |-> <<Task("a", FALSE), Task("b", FALSE)>>, edges |-> <<ServerEdge("a", "b")>>],
     [tasks |-> <<Task("b", FALSE), Task("a", FALSE), Task("b", TRUE)>>, edges |-> <<>>]}
\* the task lists of the files importData is given
ImportFiles ==
    {<<Task("a", TRUE)>>, <<Task("b", FALSE), Task("b", TRUE)>>}
\* ids as `task-${Date.now()}-${Math.random()...}` makes them
FreshPool == <<"n1", "n2">>

\* a list as the data source delivered it
removeDuplicateTasksKeepAll(ts) == ts

\* removeDuplicateTasks: the first task of every id, in the order of the list
RECURSIVE removeDuplicateTasks(_)
removeDuplicateTasks(ts) ==
    IF ts = <<>> THEN <<>>
    ELSE LET front == removeDuplicateTasks(SubSeq(ts, 1, Len(ts) - 1))
             last == ts[Len(ts)]
         IN  IF last.id \in IdsOf(front) THEN front ELSE Append(front, last)

\* Table.add on a table whose primary key is the field id: rejected when the record
\* has no id or the table has a record of that id
addRejected(table, rec) ==
    IF "id" \in DOMAIN rec THEN rec.id \in IdsOf(table) ELSE TRUE

\* Table.bulkAdd outside a transaction: the records that can be added are, and the call
\* is rejected if one could not
RECURSIVE bulkAdd(_, _)
bulkAdd(table, recs) ==
    IF recs = <<>> THEN [table |-> table, rejected |-> FALSE]
    ELSE LET r == bulkAdd(table, SubSeq(recs, 1, Len(recs) - 1))
             last == recs[Len(recs)]
         IN  IF addRejected(r.table, last)
             THEN [table |-> r.table, rejected |-> TRUE]
             ELSE [table |-> Append(r.table, last), rejected |-> r.rejected]

joins(edge, s, t) ==
    \/ edge.source = s /\ edge.target = t
    \/ edge.source = t /\ edge.target = s

\* loadFromServer, with syncCacheFromServer
loadFromServer(st, reply) ==
    IF reply = Failed THEN st
    ELSE LET uniqueTasks == removeDuplicateTasks(reply.tasks)
         IN  [st EXCEPT !.tasks = uniqueTasks, !.edges = reply.edges,
                        !.dbTasks = uniqueTasks, !.dbEdges = reply.edges,
                        !.isDemoMode = FALSE]

loadFromLocal(st) ==
    IF st.dbTasks = <<>>
    THEN [st EXCEPT !.tasks = sampleNodes, !.edges = sampleEdges, !.isDemoMode = TRUE]
    ELSE [st EXCEPT !.tasks = removeDuplicateTasks(st.dbTasks), !.edges = st.dbEdges,
                    !.isDemoMode = FALSE]

\* syncPendingOperations: the operations the server took leave the queue (accepted: it
\* took them all, or none), then the data is loaded from the server
syncPendingOperations(st, accepted, reply) ==
    loadFromServer([st EXCEPT !.pendingOperations = IF accepted THEN <<>> ELSE @], reply)

\* addTask that saves locally without queueing
addTaskUnqueued(st, online, task, reply) ==
    LET s0 == IF st.isDemoMode
              THEN [st EXCEPT !.tasks = <<>>, !.edges = <<>>, !.isDemoMode = FALSE]
              ELSE st
    IN  IF online THEN loadFromServer(s0, reply)
        ELSE IF addRejected(s0.dbTasks, task) THEN s0
        ELSE [s0 EXCEPT !.dbTasks = Append(@, task), !.tasks = Append(@, task)]

\* addTask; online, reply is the answer to the reload after api.createTask (Failed: the
\* creation or the reload was rejected)
addTask(st, online, task, reply) ==
    LET s0 == IF st.isDemoMode
              THEN [st EXCEPT !.tasks = <<>>, !.edges = <<>>, !.isDemoMode = FALSE]
              ELSE st
    IN  IF online THEN loadFromServer(s0, reply)
        ELSE IF addRejected(s0.dbTasks, task) THEN s0
        ELSE [s0 EXCEPT !.dbTasks = Append(@, task),
                        !.pendingOperations =
                            addPendingOperation(@, <<Op("create", "task", task.id)>>),
                        !.tasks = Append(@, task)]

withoutTask(st, id) ==
    [st EXCEPT !.tasks = SelectSeq(@, LAMBDA t : t.id # id),
               !.edges = SelectSeq(@, LAMBDA e : e.source # id /\ e.target # id),
               !.dbTasks = SelectSeq(@, LAMBDA t : t.id # id),
               !.dbEdges = SelectSeq(@, LAMBDA e : e.source # id /\ e.target # id)]

deleteTask(st, online, id, apiOk) ==
    IF st.isDemoMode THEN st
    ELSE IF online THEN (IF apiOk THEN withoutTask(st, id) ELSE st)
    ELSE [withoutTask(st, id) EXCEPT
            !.pendingOperations = addPendingOperation(@, <<Op("delete", "task", id)>>)]

withUpdate(ts, id, done) ==
    [i \in 1..Len(ts) |-> IF ts[i].id = id THEN [ts[i] EXCEPT !.done = done] ELSE ts[i]]

updateTask(st, online, id, done, apiOk) ==
    IF st.isDemoMode THEN st
    ELSE IF online
    THEN (IF apiOk
          THEN [st EXCEPT !.tasks = withUpdate(@, id, done), !.dbTasks = withUpdate(@, id, done)]
          ELSE st)
    ELSE [st EXCEPT !.dbTasks = withUpdate(@, id, done),
                    !.pendingOperations = addPendingOperation(@, <<Op("update", "task", id)>>),
                    !.tasks = withUpdate(@, id, done)]

\* addEdge; offline, newEdge is built without an id and goes to db.edges.add first
addEdge(st, online, sourceId, targetId, apiOk) ==
    IF st.isDemoMode THEN st
    ELSE IF \E i \in 1..Len(st.edges) : joins(st.edges[i], sourceId, targetId) THEN st
    ELSE IF online
    THEN (IF apiOk
          THEN [st EXCEPT !.edges = Append(@, ServerEdge(sourceId, targetId)),
                          !.dbEdges = Append(@, ServerEdge(sourceId, targetId))]
          ELSE st)
    ELSE LET newEdge == LocalEdge(sourceId, targetId)
         IN  IF addRejected(st.dbEdges, newEdge) THEN st
             ELSE [st EXCEPT !.dbEdges = Append(@, newEdge),
                             !.pendingOperations =
                                addPendingOperation(@, <<Op("create", "edge", "temp")>>),
                             !.edges = Append(@, newEdge)]

withoutEdge(st, s, t) ==
    [st EXCEPT !.edges = SelectSeq(@, LAMBDA e : ~joins(e, s, t)),
               !.dbEdges = SelectSeq(@, LAMBDA e : ~joins(e, s, t))]

deleteEdge(st, online, sourceId, targetId, apiOk) ==
    IF st.isDemoMode THEN st
    ELSE IF ~\E i \in 1..Len(st.edges) : joins(st.edges[i], sourceId, targetId) THEN st
    ELSE LET edgeToDelete ==
                st.edges[CHOOSE i \in 1..Len(st.edges) :
                            /\ joins(st.edges[i], sourceId, targetId)
                            /\ \A j \in 1..(i - 1) : ~joins(st.edges[j], sourceId, targetId)]
         IN  IF online THEN (IF apiOk THEN withoutEdge(st, sourceId, targetId) ELSE st)
             ELSE [withoutEdge(st, sourceId, targetId) EXCEPT
                     !.pendingOperations =
                        addPendingOperation(@, <<Op("delete", "edge",
                                     EdgeKey(edgeToDelete.source, edgeToDelete.target))>>)]

\* tasksToAdd: a task whose id is one of existingIds gets a new id, the first of the
\* pool that is not taken
RECURSIVE tasksToAdd(_, _, _)
tasksToAdd(data, existingIds, taken) ==
    IF data = <<>> THEN <<>>
    ELSE IF Head(data).id \in existingIds
    THEN LET id == FreshPool[CHOOSE i \in 1..Len(FreshPool) :
                                /\ FreshPool[i] \notin taken
                                /\ \A j \in 1..(i - 1) : FreshPool[j] \in taken]
         IN  <<[Head(data) EXCEPT !.id = id]>>
                \o tasksToAdd(Tail(data), existingIds, taken \cup {id})
    ELSE <<Head(data)>> \o tasksToAdd(Tail(data), existingIds, taken)

\* importData of a file with tasks and no edges
importData(st, online, data, mode, reply) ==
    IF online THEN loadFromServer(st, reply)
    ELSE LET s1 == IF mode = "replace"
                   THEN [st EXCEPT
                           !.pendingOperations =
                                addPendingOperation(<<>>,
                                    [i \in 1..Len(st.tasks) |->
                                        Op("delete", "task", st.tasks[i].id)]),
                           !.dbTasks = <<>>, !.dbEdges = <<>>]
                   ELSE st
             existingIds == IF mode = "merge" THEN IdsOf(st.tasks) ELSE {}
             new == tasksToAdd(data, existingIds,
                               IdsOf(st.tasks) \cup IdsOf(st.dbTasks) \cup IdsOf(data))
             added == bulkAdd(s1.dbTasks, new)
         IN  IF added.rejected THEN [s1 EXCEPT !.dbTasks = added.table]
             ELSE [s1 EXCEPT
                     !.dbTasks = added.table,
                     !.pendingOperations =
                        addPendingOperation(@, [i \in 1..Len(new) |->
                                                    Op("create", "task", new[i].id)]),
                     !.tasks = IF mode = "replace" THEN new ELSE @ \o new,
                     !.edges = IF mode = "replace" THEN <<>> ELSE @,
                     !.isDemoMode = FALSE]

\* graphData: what App hands to the graph (with no filter set)
graphData == [nodes |-> store.tasks, edges |-> store.edges]

\* a call into the store: st is the store it leaves, op the record of the call
Called(name, st, entityId, delivered) ==
    /\ Len(st.pendingOperations) <= MaxPending
    /\ Len(st.tasks) <= MaxTasks
    /\ store' = st
    /\ storeOp' = [name |-> name, entityId |-> entityId, delivered |-> delivered]
    /\ lastOp' = name
    /\ UNCHANGED <<hookState, uiVars, centerVars, cooling, linkingMode, flightVars>>

\* loadData: from the server when it can be reached and answers, else from the database
LoadData(reply) ==
    /\ Called("loadData",
              IF isOnline /\ reply # Failed THEN loadFromServer(store, reply)
              ELSE loadFromLocal(store),
              "",
              IF isOnline /\ reply # Failed THEN Some(reply.tasks) ELSE Some(store.dbTasks))
    /\ UNCHANGED isOnline

\* onOnline of useOnlineStatus: syncPendingOperations()
GoOnline(accepted, reply) ==
    /\ ~isOnline
    /\ isOnline' = TRUE
    /\ Called("sync", syncPendingOperations(store, accepted, reply), "",
              IF reply # Failed THEN Some(reply.tasks) ELSE None)

GoOffline ==
    /\ isOnline
    /\ isOnline' = FALSE
    /\ Called("offline", store, "", None)

\* handleAddTask makes the id of the new task from Date.now(): it is new to the store,
\* or that of the task added just before (in the same millisecond)
newTaskId(id) ==
    \/ id \notin IdsOf(store.tasks) \cup IdsOf(store.dbTasks)
    \/ storeOp # None /\ storeOp.name = "addTask" /\ storeOp.entityId = id

AddTask(task, reply) ==
    /\ newTaskId(task.id)
    /\ Called("addTask", addTask(store, isOnline, task, reply), task.id,
              IF isOnline /\ reply # Failed THEN Some(reply.tasks) ELSE None)
    /\ UNCHANGED isOnline

DeleteTask(id, apiOk) ==
    /\ Called("deleteTask", deleteTask(store, isOnline, id, apiOk), id, None)
    /\ UNCHANGED isOnline

UpdateTask(id, done, apiOk) ==
    /\ Called("updateTask", updateTask(store, isOnline, id, done, apiOk), id, None)
    /\ UNCHANGED isOnline

AddEdge(s, t, apiOk) ==
    /\ s # t
    /\ Called("addEdge", addEdge(store, isOnline, s, t, apiOk), EdgeKey(s, t), None)
    /\ UNCHANGED isOnline

DeleteEdge(s, t, apiOk) ==
    /\ s # t
    /\ Called("deleteEdge", deleteEdge(store, isOnline, s, t, apiOk), EdgeKey(s, t), None)
    /\ UNCHANGED isOnline

ImportData(data, mode, reply) ==
    \* the pool still has a new id for every task of the file
    /\ Cardinality({FreshPool[i] : i \in 1..Len(FreshPool)}
                        \ (IdsOf(store.tasks) \cup IdsOf(store.dbTasks))) >= Len(data)
    /\ Called("importData", importData(store, isOnline, data, mode, reply), "",
              IF isOnline /\ reply # Failed THEN Some(reply.tasks) ELSE None)
    /\ UNCHANGED isOnline

\* the store of a session that starts over a database an earlier session may have left
InitAnyStore ==
    /\ InitHook
    /\ InitUI
    /\ cooling = Cooling(AlphaOne)
    /\ store \in {EmptyStore, [EmptyStore EXCEPT !.dbTasks = <<Task("a", FALSE)>>]}
    /\ isOnline \in BOOLEAN
    /\ linkingMode = None
    /\ storeOp = None
    /\ InitFlight

NextStore ==
    \/ \E reply \in ServerReplies \cup {Failed} : LoadData(reply)
    \/ \E accepted \in BOOLEAN, reply \in ServerReplies \cup {Failed} : GoOnline(accepted, reply)
    \/ GoOffline
    \/ \E id \in Ids, reply \in ServerReplies \cup {Failed} : AddTask(Task(id, FALSE), reply)
    \/ \E apiOk \in BOOLEAN : DeleteTask("a", apiOk)
    \/ \E done \in BOOLEAN, apiOk \in BOOLEAN : UpdateTask("a", done, apiOk)
    \/ \E apiOk \in BOOLEAN : AddEdge("a", "b", apiOk)
    \/ \E apiOk \in BOOLEAN : DeleteEdge("b", "a", apiOk)
    \/ \E data \in ImportFiles, mode \in {"replace", "merge"},
          reply \in ServerReplies \cup {Failed} : ImportData(data, mode, reply)

SpecStore == InitAnyStore /\ [][NextStore]_vars

-----------------------------------------------------------------------------
(* A sync pass, await by await (useTaskStore.ts: syncPendingOperations) *)

\* what Date.now() may read
ClockReadings == {1, 2}

\* the replay of one operation: removePendingOperation(op.id) when the request went
\* through (ok), nothing when it threw
replayedAlways(queue, op, ok) ==
    SelectSeq(queue, LAMBDA o : o.id # op.id)

replayed(queue, op, ok) ==
    IF ok THEN SelectSeq(queue, LAMBDA o : o.id # op.id) ELSE queue

\* syncPendingOperations without its first line
syncStartUnguarded(flag, passes, caller, queue) ==
    [flag |-> TRUE,
     passes |-> Append(passes, [caller |-> caller, pending |-> getPendingOperations(queue),
                                i |-> 1, log |-> <<>>])]

\* syncPendingOperations up to the loop: the guard on isSyncingRef.current, the flag,
\* pending = await getPendingOperations()
syncStart(flag, passes, caller, queue) ==
    IF flag THEN [flag |-> flag, passes |-> passes]
    ELSE [flag |-> TRUE,
          passes |-> Append(passes, [caller |-> caller,
                                     pending |-> getPendingOperations(queue),
                                     i |-> 1, log |-> <<>>])]

\* a step of a sync pass: the store, the flag and the passes after it
SyncStep(name, st, flag, passes, caller, log) ==
    /\ store' = st
    /\ isSyncingRef' = flag
    /\ syncPasses' = passes
    /\ storeOp' = [name |-> name, entityId |-> caller, delivered |-> None, log |-> log]
    /\ lastOp' = name
    /\ UNCHANGED <<hookState, uiVars, centerVars, cooling, linkingMode, now, miniMap,
                   downView, edgeCalls>>

\* a call of syncPendingOperations, by the onOnline callback or by forceSync after a
\* checkConnection that found the server
SyncCall(caller) ==
    LET s == syncStart(isSyncingRef, syncPasses, caller, store.pendingOperations)
    IN  /\ SyncStep("syncCall", store, s.flag, s.passes, caller, <<>>)
        /\ UNCHANGED isOnline

\* the effect of useOnlineStatus on the turn from offline to online: onOnline()
ComeOnline ==
    /\ ~isOnline
    /\ isOnline' = TRUE
    /\ LET s == syncStart(isSyncingRef, syncPasses, "onOnline", store.pendingOperations)
       IN  SyncStep("syncCall", store, s.flag, s.passes, "onOnline", <<>>)

\* one turn of the loop `for (const op of pending)` of the pass k
SyncReplay(k, ok) ==
    /\ k \in 1..Len(syncPasses)
    /\ syncPasses[k].i <= Len(syncPasses[k].pending)
    /\ LET p == syncPasses[k]
       IN  SyncStep("syncReplay",
                    [store EXCEPT !.pendingOperations = replayed(@, p.pending[p.i], ok)],
                    isSyncingRef,
                    [syncPasses EXCEPT ![k].i = @ + 1, ![k].log = Append(@, ok)],
                    p.caller, <<>>)
    /\ UNCHANGED isOnline

\* the end of the pass k: loadFromServer(), finally isSyncingRef.current = false
SyncFinish(k, reply) ==
    /\ k \in 1..Len(syncPasses)
    /\ syncPasses[k].i > Len(syncPasses[k].pending)
    /\ SyncStep("syncDone", loadFromServer(store, reply), FALSE,
                SubSeq(syncPasses, 1, k - 1) \o SubSeq(syncPasses, k + 1, Len(syncPasses)),
                syncPasses[k].caller, syncPasses[k].log)
    /\ UNCHANGED isOnline

\* Date.now() has another value when it is read again (the clock may have been set
\* back)
SetClock(t) ==
    /\ t # now
    /\ store.pendingOperations # <<>>
    /\ store.pendingOperations[Len(store.pendingOperations)].timestamp = now
    /\ now' = t
    /\ lastOp' = "clock"
    /\ UNCHANGED <<hookState, uiVars, centerVars, cooling, storeVars, isSyncingRef,
                   syncPasses, miniMap, downView, edgeCalls>>

\* a session that has loaded two tasks from the server
InitSync ==
    /\ InitHook
    /\ InitUI
    /\ cooling = Cooling(AlphaOne)
    /\ store = loadFromServer(EmptyStore,
                              [tasks |-> <<Task("a", FALSE), Task("b", FALSE)>>, edges |-> <<>>])
    /\ isOnline = TRUE
    /\ linkingMode = None
    /\ storeOp = None
    /\ InitFlight

SyncReply == [tasks |-> <<Task("a", TRUE)>>, edges |-> <<>>]

\* the user changes a task while offline, each task once until its change is synced
ChangeOffline(id) ==
    /\ ~isOnline
    /\ \A i \in 1..Len(store.pendingOperations) : store.pendingOperations[i].entityId # id
    /\ \/ id = "a" /\ UpdateTask("a", TRUE, TRUE)
       \/ id = "b" /\ DeleteTask("b", TRUE)

NextSync ==
    \/ GoOffline
    \/ ComeOnline
    \/ SyncCall("forceSync")
    \/ \E k \in 1..2, ok \in BOOLEAN : SyncReplay(k, ok)
    \/ \E k \in 1..2, reply \in {SyncReply, Failed} : SyncFinish(k, reply)
    \/ \E t \in ClockReadings : SetClock(t)
    \/ \E id \in Ids : ChangeOffline(id)

SpecSync == InitSync /\ [][NextSync]_vars

-----------------------------------------------------------------------------
(* addEdge online, await by await (useTaskStore.ts: addEdge) *)

\* db.edges.put(created): the record with the key of created is replaced, else added
putEdge(table, created) ==
    IF \E i \in 1..Len(table) : "id" \in DOMAIN table[i] /\ table[i].id = created.id
    THEN [i \in 1..Len(table) |->
            IF "id" \in DOMAIN table[i] /\ table[i].id = created.id THEN created ELSE table[i]]
    ELSE Append(table, created)

\* the call up to await api.createEdge: the test for an edge of the pair reads the
\* edges of the render the call was made from
addEdgeStart(st, inFlight, sourceId, targetId) ==
    IF st.isDemoMode THEN inFlight
    ELSE IF \E i \in 1..Len(st.edges) : joins(st.edges[i], sourceId, targetId) THEN inFlight
    ELSE Append(inFlight, [source |-> sourceId, target |-> targetId])

\* the call after the await: setEdges(prev => [...prev, created]) and db.edges.put,
\* or the error thrown on
addEdgeSettle(st, call, apiOk) ==
    IF apiOk
    THEN [st EXCEPT !.edges = Append(@, ServerEdge(call.source, call.target)),
                    !.dbEdges = putEdge(@, ServerEdge(call.source, call.target))]
    ELSE st

AddEdgeStart(s, t) ==
    /\ s # t
    /\ isOnline
    /\ Len(edgeCalls) < MaxPending
    /\ edgeCalls' = addEdgeStart(store, edgeCalls, s, t)
    /\ storeOp' = [name |-> "addEdge", entityId |-> EdgeKey(s, t), delivered |-> None]
    /\ lastOp' = "addEdge"
    /\ UNCHANGED <<hookState, uiVars, centerVars, cooling, store, isOnline, linkingMode,
                   syncVars, miniMap, downView>>

\* the server answers the k-th call in flight
AddEdgeSettle(k, apiOk) ==
    /\ k \in 1..Len(edgeCalls)
    /\ Len(store.edges) < MaxTasks
    /\ store' = addEdgeSettle(store, edgeCalls[k], apiOk)
    /\ edgeCalls' = [i \in 1..(Len(edgeCalls) - 1) |->
                        IF i < k THEN edgeCalls[i] ELSE edgeCalls[i + 1]]
    /\ storeOp' = [name |-> "createEdge", entityId |-> EdgeKey(edgeCalls[k].source, edgeCalls[k].target),
                   delivered |-> None]
    /\ lastOp' = "createEdge"
    /\ UNCHANGED <<hookState, uiVars, centerVars, cooling, isOnline, linkingMode,
                   syncVars, miniMap, downView>>

NextEdges ==
    \/ \E s \in Ids, t \in Ids : AddEdgeStart(s, t)
    \/ \E k \in 1..MaxPending, apiOk \in BOOLEAN : AddEdgeSettle(k, apiOk)
    \/ \E s \in Ids, t \in Ids, apiOk \in BOOLEAN : DeleteEdge(s, t, apiOk)
    \/ \E id \in Ids, done \in BOOLEAN : UpdateTask(id, done, TRUE)

SpecEdges == InitSync /\ [][NextEdges]_vars

-----------------------------------------------------------------------------
(* autoArrange (useTaskStore.ts) *)

\* autoArrange that does not look at isOnline
autoArrangeAnyway(st, online, answer) ==
    LET positions == answer.positions
        at(id) == CHOOSE k \in 1..Len(positions) :
                    positions[k].id = id /\ \A j \in (k + 1)..Len(positions) : positions[j].id # id
        placed(ts) == [i \in 1..Len(ts) |->
                        IF \E k \in 1..Len(positions) : positions[k].id = ts[i].id
                        THEN [ts[i] EXCEPT !.x = Some(positions[at(ts[i].id)].x),
                                           !.y = Some(positions[at(ts[i].id)].y)]
                        ELSE ts[i]]
    IN  IF answer = Failed THEN [store |-> st, rejected |-> TRUE]
        ELSE [store |-> [st EXCEPT !.tasks = placed(@), !.dbTasks = placed(@)],
              rejected |-> FALSE]

\* autoArrange: answer is what the request of api.autoArrange() brings, positions by
\* task id (the last of an id is the one of positionMap), or Failed.  The result is the
\* store after the call and whether the call was rejected.
autoArrange(st, online, answer) ==
    LET positions == answer.positions
        at(id) == CHOOSE k \in 1..Len(positions) :
                    positions[k].id = id /\ \A j \in (k + 1)..Len(positions) : positions[j].id # id
        placed(ts) == [i \in 1..Len(ts) |->
                        IF \E k \in 1..Len(positions) : positions[k].id = ts[i].id
                        THEN [ts[i] EXCEPT !.x = Some(positions[at(ts[i].id)].x),
                                           !.y = Some(positions[at(ts[i].id)].y)]
                        ELSE ts[i]]
    IN  IF ~online \/ answer = Failed THEN [store |-> st, rejected |-> TRUE]
        ELSE [store |-> [st EXCEPT !.tasks = placed(@), !.dbTasks = placed(@)],
              rejected |-> FALSE]

\* onArrange of the modal: await autoArrange(...)
AutoArrange(answer) ==
    LET r == autoArrange(store, isOnline, answer)
    IN  /\ store' = r.store
        /\ storeOp' = [name |-> "autoArrange", entityId |-> "", delivered |-> None,
                       failed |-> (answer = Failed), rejected |-> r.rejected]
        /\ lastOp' = "autoArrange"
        /\ UNCHANGED <<hookState, uiVars, centerVars, cooling, isOnline, linkingMode,
                       flightVars>>

NextArrange ==
    \/ GoOffline
    \/ \E accepted \in BOOLEAN : GoOnline(accepted, Failed)
    \/ \E id \in Ids \cup {GhostId}, x, y \in {0, CellSize, 2 * CellSize} :
            \/ AutoArrange([positions |-> <<[id |-> id, x |-> x, y |-> y]>>])
            \/ AutoArrange([positions |-> <<[id |-> "a", x |-> y, y |-> x],
                                            [id |-> id, x |-> x, y |-> y]>>])
    \/ AutoArrange(Failed)

SpecArrange == InitSync /\ [][NextArrange]_vars

-----------------------------------------------------------------------------
(* The pointer on a node (GraphNode.tsx) and the selection (Graph.tsx, App.tsx) *)

MoveThreshold == 3
EdgeThreshold == 80
PanSpeed == 8

Abs(a) == IF a < 0 THEN -a ELSE a

\* <g transform={`translate(${pan.x}, ${pan.y}) scale(${zoom})`}>, on one axis
worldToScreen(w, pan, zoom) == (w * zoom) \div 10 + pan
\* adjustedX = (relativeX - currentPan.x) / currentZoom, on one axis
screenToWorld(rel, pan, zoom) == ((rel - pan) * 10) \div zoom

\* where the pointer goes after it went down, relative to where it went down: nowhere,
\* under the threshold, at it on either axis, into the left, right and bottom band
MoveOffsets == {<<0, 0>>, <<2, 2>>, <<3, 0>>, <<0, -3>>, <<-60, 0>>, <<60, 0>>, <<0, 60>>}

\* a threshold of two pixels
ignoredMoveTwoPixels(moved0, dx, dy) == ~moved0 /\ dx < 2 /\ dy < 2

\* handleMouseMove returns at once: no drag yet and the pointer within the threshold
ignoredMove(moved0, dx, dy) == ~moved0 /\ dx < MoveThreshold /\ dy < MoveThreshold

\* an auto-pan that follows the pointer towards the edge
bandStepTowards(rel, size) ==
    IF rel < EdgeThreshold THEN -PanSpeed
    ELSE IF rel > size - EdgeThreshold THEN PanSpeed
    ELSE 0

\* the auto-pan step on one axis, by the band the pointer is in
bandStep(rel, size) ==
    IF rel < EdgeThreshold THEN PanSpeed
    ELSE IF rel > size - EdgeThreshold THEN -PanSpeed
    ELSE 0

\* the distance of the pointer from its start, against the threshold
reachOf(dx, dy) ==
    LET d2 == dx * dx + dy * dy
        t2 == MoveThreshold * MoveThreshold
    IN  IF d2 < t2 THEN "under" ELSE IF d2 = t2 THEN "at" ELSE "over"
reachRank(r) == CASE r = "none" -> 0 [] r = "under" -> 1 [] r = "at" -> 2 [] r = "over" -> 3
farther(r1, r2) == IF reachRank(r1) >= reachRank(r2) THEN r1 ELSE r2

\* handleNodeSelect: the selection is toggled and the view centred on a newly selected
\* node; selectedNode is what onNodeSelect is called with
handleNodeSelect(nodeId, sel, shown, view, w, h) ==
    LET newSelectedId == IF sel = Some(nodeId) THEN None ELSE Some(nodeId)
        k == IF newSelectedId = None THEN 0 ELSE FindIndex(shown, nodeId)
        moves == k # 0 /\ centers(shown[k], view, w, h)
    IN  [selectedNode |-> IF k = 0 THEN None ELSE Some(nodeId),
         view |-> IF moves
                  THEN onViewStateChange(<<setPan(view, centerPan(shown[k], view, w, h))>>)
                  ELSE view,
         centred |-> moves]

\* the zoom and the pan of the state at the pointer-down
dragViewAtDown(atDown, current) == atDown

\* zoomRef.current and panRef.current, which the effect of GraphNode sets after every
\* render with another zoom or pan
dragView(atDown, current) == current

handleMouseDown(n) ==
    /\ phase = "idle"
    /\ ~isPanning
    /\ FindIndex(state.nodes, n) # 0
    /\ LET node == state.nodes[FindIndex(state.nodes, n)]
       IN  start' = <<worldToScreen(node.x, viewState.pan[1], viewState.zoom),
                      worldToScreen(node.y, viewState.pan[2], viewState.zoom)>>
    /\ phase' = "down"
    /\ target' = Some(n)
    /\ hasMoved' = FALSE
    /\ autoPanInterval' = None
    /\ calls' = <<>>
    /\ reach' = "none"
    /\ pointer' = Some(start')
    /\ downView' = Some(viewState)
    \* e.stopPropagation(), and the pointer is on a circle of the node
    /\ IF panStarts("circle", TRUE)
       THEN /\ isPanning' = TRUE
            /\ panStart' = <<start'[1] - viewState.pan[1], start'[2] - viewState.pan[2]>>
       ELSE UNCHANGED <<isPanning, panStart>>
    /\ lastOp' = "mouseDown"
    /\ UNCHANGED <<cooling, storeVars, syncVars, miniMap, edgeCalls, centerVars>>
    /\ UNCHANGED <<hookState, viewState, isAnimating, selectedNodeId, isDragging>>

handleMouseMove(offset) ==
    /\ phase = "down"
    /\ LET n == target[1]
           clientX == start[1] + offset[1]
           clientY == start[2] + offset[2]
           dx == Abs(clientX - start[1])
           dy == Abs(clientY - start[2])
       IN  /\ reach' = farther(reach, reachOf(dx, dy))
           /\ pointer' = Some(<<clientX, clientY>>)
           /\ IF ignoredMove(hasMoved, dx, dy)
              THEN UNCHANGED <<simulationRef, nodesRef, drag, moved, hasMoved, isDragging,
                               calls, autoPanInterval>>
              ELSE LET begun == IF ~hasMoved
                                THEN handleDragStart(simulationRef, nodesRef, n)
                                ELSE [simulation |-> simulationRef, nodes |-> nodesRef]
                       view == dragView(downView[1], viewState)
                       adjustedX == screenToWorld(clientX, view.pan[1], view.zoom)
                       adjustedY == screenToWorld(clientY, view.pan[2], view.zoom)
                       step == <<bandStep(clientX, width), bandStep(clientY, height)>>
                   IN  /\ hasMoved' = TRUE
                       /\ isDragging' = TRUE
                       /\ calls' = IF ~hasMoved THEN Append(calls, "beginPin") ELSE calls
                       /\ hookBecomes(handleDrag(begun.simulation, begun.nodes, n,
                                                 adjustedX, adjustedY))
                       /\ drag' = Some(n)
                       /\ moved' = <<adjustedX, adjustedY>>
                       /\ autoPanInterval' =
                            IF width > 0 /\ height > 0 /\ step # Origin THEN Some(step) ELSE None
    /\ lastOp' = "mouseMove"
    /\ UNCHANGED restVars
    /\ runStart' = None
    /\ UNCHANGED <<hookRest, viewVars, selectedNodeId, phase, target, start>>

\* the callback of the auto-pan interval; handleAutoPan adds (dx, dy) to the pan
autoPanTick ==
    /\ autoPanInterval # None
    /\ IF ~isDragging
       THEN /\ autoPanInterval' = None
            /\ UNCHANGED <<viewState, isAnimating, selectedNodeId, centerVars>>
       ELSE LET d == autoPanInterval[1]
                newPan == <<viewState.pan[1] + d[1], viewState.pan[2] + d[2]>>
            IN  /\ inPanRange(newPan)
                /\ Rendered(selectedNodeId, state.nodes,
                            onViewStateChange(<<setPan(viewState, newPan)>>), isAnimating, 0)
                /\ UNCHANGED autoPanInterval
    /\ lastOp' = "autoPan"
    /\ UNCHANGED otherVars
    /\ UNCHANGED <<hookState, isPanning, panStart,
                   phase, target, hasMoved, start, isDragging, calls, reach, pointer>>

handleMouseUp ==
    /\ phase = "down"
    /\ isDragging' = FALSE
    /\ IF hasMoved
       THEN /\ hookBecomes(handleDragEnd(simulationRef, nodesRef, target[1]))
            /\ calls' = Append(calls, "endPin")
            /\ drag' = None
            /\ moved' = None
       ELSE UNCHANGED <<simulationRef, nodesRef, calls, drag, moved>>
    /\ autoPanInterval' = None
    \* the listeners are removed and the closure of the gesture is gone
    /\ phase' = "up"
    /\ hasMoved' = FALSE
    /\ start' = Origin
    /\ lastOp' = "mouseUp"
    /\ downView' = None
    /\ UNCHANGED <<cooling, storeVars, syncVars, miniMap, edgeCalls, centerVars>>
    /\ runStart' = None
    /\ pointer' = None
    /\ UNCHANGED <<hookRest, viewVars, selectedNodeId, target, reach>>

\* the click the browser delivers to the node after the pointer went up on it
handleClick ==
    /\ phase = "up"
    /\ IF ~isDragging
       THEN LET h == handleNodeSelect(target[1], selectedNodeId, state.nodes, viewState,
                                     width, height)
                \* onNodeSelect(selectedNode) of App
                linking == /\ linkingMode # None
                           /\ h.selectedNode # None
                           /\ h.selectedNode # linkingMode
            IN  /\ calls' = Append(calls, "select")
                /\ IF linking
                   THEN \* addEdge(linkingMode, node.id); setLinkingMode(null); return
                        /\ \E apiOk \in BOOLEAN :
                              store' = addEdge(store, isOnline, linkingMode[1],
                                               h.selectedNode[1], apiOk)
                        /\ linkingMode' = None
                        /\ storeOp' = [name |-> "link",
                                       entityId |-> EdgeKey(linkingMode[1], h.selectedNode[1]),
                                       delivered |-> None,
                                       source |-> linkingMode[1],
                                       target |-> h.selectedNode[1]]
                        /\ Rendered(selectedNodeId, state.nodes, h.view,
                                    isAnimating \/ h.centred, IF h.centred THEN 1 ELSE 0)
                        /\ lastOp' = "link"
                   ELSE \* setSelectedNode(node)
                        /\ Rendered(h.selectedNode, state.nodes, h.view,
                                    isAnimating \/ h.centred, IF h.centred THEN 1 ELSE 0)
                        /\ lastOp' = "click"
                        /\ UNCHANGED <<store, linkingMode, storeOp>>
       ELSE /\ lastOp' = "click"
            /\ UNCHANGED <<viewState, isAnimating, selectedNodeId, calls, centerVars,
                           store, linkingMode, storeOp>>
    /\ phase' = "idle"
    /\ target' = None
    /\ UNCHANGED <<cooling, isOnline, flightVars>>
    /\ UNCHANGED <<hookState, isPanning, panStart, hasMoved, start, autoPanInterval,
                   isDragging, reach, pointer>>

\* setSelectedNode from outside the graph: a hit of the search bar selects its task,
\* the close button of the panel selects none
setSelectedNode(sel) ==
    /\ sel # selectedNodeId
    /\ Rendered(sel, state.nodes, viewState, isAnimating, 0)
    /\ lastOp' = "select"
    /\ UNCHANGED otherVars
    /\ UNCHANGED <<hookState, isPanning, panStart, gestureVars>>

\* onStartLinking of the panel of the selected task (the button is not there in demo
\* mode): setLinkingMode(nodeId); setSelectedNode(null)
onStartLinking(nodeId) ==
    /\ selectedNodeId = Some(nodeId)
    /\ ~store.isDemoMode
    /\ linkingMode' = Some(nodeId)
    /\ Rendered(None, state.nodes, viewState, isAnimating, 0)
    /\ lastOp' = "startLinking"
    /\ UNCHANGED <<cooling, store, isOnline, storeOp, flightVars>>
    /\ UNCHANGED <<hookState, isPanning, panStart, gestureVars>>

\* the cancel button of the linking banner: setLinkingMode(null)
cancelLinking ==
    /\ linkingMode # None
    /\ linkingMode' = None
    /\ lastOp' = "cancelLinking"
    /\ UNCHANGED <<cooling, store, isOnline, storeOp, flightVars>>
    /\ UNCHANGED <<hookState, uiVars, centerVars>>

\* The graph of one node after its first render and the ticks that took the node to
\* the middle of the canvas.
MountedNode ==
    [id |-> "a", x |-> CellSize, y |-> CellSize, vx |-> 0, vy |-> 0, fx |-> None, fy |-> None]

InitMounted ==
    /\ nodes = <<InputNode("a", <<None, None>>)>>
    /\ edges = <<Edge("a", "b")>>
    /\ width = CanvasSize
    /\ height = CanvasSize
    /\ nodesRef = <<MountedNode>>
    /\ simEdges = <<>>
    /\ simulationRef = NewSimulation
    /\ hasCleanup = TRUE
    /\ orphanRunning = FALSE
    /\ linkError = FALSE
    /\ state = [nodes |-> snapshot(<<MountedNode>>), edges |-> <<>>]
    /\ drag = None
    /\ moved = None
    /\ lastOp = "tick"
    /\ runStart = None

InitGesture == InitMounted /\ InitUI /\ InitRest

NextGesture ==
    \/ \E n \in Ids : handleMouseDown(n)
    \/ \E offset \in MoveOffsets : handleMouseMove(offset)
    \/ autoPanTick
    \/ handleMouseUp
    \/ handleClick
    \/ animationEnd

SpecGesture == InitGesture /\ [][NextGesture]_vars

\* The graph of the two tasks a and b the store has loaded, a in the middle of the
\* canvas and b at its left edge; the store is online or offline.
InitLink ==
    /\ nodes = <<InputNode("a", <<None, None>>), InputNode("b", <<None, None>>)>>
    /\ edges = <<>>
    /\ width = CanvasSize
    /\ height = CanvasSize
    /\ nodesRef = <<MountedNode, [MountedNode EXCEPT !.id = "b", !.x = 0]>>
    /\ simEdges = <<>>
    /\ simulationRef = NewSimulation
    /\ hasCleanup = TRUE
    /\ orphanRunning = FALSE
    /\ linkError = FALSE
    /\ state = [nodes |-> snapshot(nodesRef), edges |-> <<>>]
    /\ drag = None
    /\ moved = None
    /\ lastOp = "tick"
    /\ runStart = None
    /\ InitUI
    /\ cooling = Cooling(AlphaOne)
    /\ store = loadFromServer(EmptyStore,
                              [tasks |-> <<Task("a", FALSE), Task("b", FALSE)>>, edges |-> <<>>])
    /\ isOnline \in BOOLEAN
    /\ linkingMode = None
    /\ storeOp = None
    /\ InitFlight

NextLink ==
    \/ \E sel \in {None} \cup {Some(n) : n \in Ids} : setSelectedNode(sel)
    \/ \E n \in Ids : onStartLinking(n)
    \/ cancelLinking
    \/ \E n \in Ids : handleMouseDown(n)
    \/ handleMouseUp
    \/ handleClick

SpecLink == InitLink /\ [][NextLink]_vars


\* The selection of the mounted node while the simulation moves it along the x axis
\* and the wheel zooms between the initial zoom and one step above it.
ZoomNear == {ZoomOne, ZoomOne + ZOOM_STEP}

NextSelect ==
    \/ Tick /\ nodesRef'[1].y = nodesRef[1].y
    \/ \E sel \in {None, Some("a")} : setSelectedNode(sel)
    \/ \E n \in Ids : handleMouseDown(n)
    \/ handleMouseUp
    \/ handleClick
    \/ \E deltaY \in DeltaY : handleWheel(deltaY) /\ viewState'.zoom \in ZoomNear

SpecSelect == InitGesture /\ [][NextSelect]_vars

\* The pointer over the canvas of the mounted node: on the node, on the background,
\* and the wheel; the pointer moves along the x axis.
NextCanvas ==
    \/ handleMouseDown("a")
    \/ \E offset \in {<<3, 0>>, <<60, 0>>} : handleMouseMove(offset)
    \/ autoPanTick
    \/ handleMouseUp
    \/ handleClick
    \/ \E deltaY \in DeltaY : handleWheel(deltaY) /\ viewState'.zoom \in ZoomNear
    \/ \E client \in {<<0, 0>>, <<8, 0>>} : handlePanStart(client)
    \/ \E client \in {<<0, 0>>, <<8, 0>>} : handlePanMove(client)
    \/ handlePanEnd
    \/ handleBackgroundClick

SpecCanvas == InitGesture /\ [][NextCanvas]_vars

\* The graph of no node, of one node and of two nodes, wherever the simulation and the
\* drags have taken them.
InitMiniMap ==
    /\ \/ InitHook
       \/ /\ \E p, q \in Coord \X Coord :
                \E ns \in {<<[MountedNode EXCEPT !.x = p[1], !.y = p[2]]>>,
                            <<[MountedNode EXCEPT !.x = p[1], !.y = p[2]],
                              [MountedNode EXCEPT !.id = "b", !.x = q[1], !.y = q[2]]>>} :
                    /\ nodesRef = ns
                    /\ nodes = [i \in 1..Len(ns) |-> InputNode(ns[i].id, <<None, None>>)]
                    /\ state = [nodes |-> snapshot(ns), edges |-> <<>>]
          /\ edges = <<>>
          /\ width = CanvasSize
          /\ height = CanvasSize
          /\ simEdges = <<>>
          /\ simulationRef = NewSimulation
          /\ hasCleanup = TRUE
          /\ orphanRunning = FALSE
          /\ linkError = FALSE
          /\ drag = None
          /\ moved = None
          /\ lastOp = "tick"
          /\ runStart = None
    /\ InitUI
    /\ InitRest

NextMiniMap ==
    \/ \E p \in WorldPoints : MiniMapClick(p)
    \/ \E deltaY \in DeltaY : handleWheel(deltaY) /\ viewState'.zoom \in ZoomNear

SpecMiniMap == InitMiniMap /\ [][NextMiniMap]_vars

-----------------------------------------------------------------------------
(* Properties of the simulation hook *)

heldIndex == IF drag = None THEN 0 ELSE FindIndex(nodesRef, drag[1])

\* C1: after beginPin(A), movePin(A, x, y) and a tick, A is at (x, y) in the working
\* set and in the emitted snapshot, whatever the forces; and a tick takes a pinned
\* node nowhere but to its pin.
PinFidelity ==
    /\ [](lastOp = "tick" /\ moved # None /\ heldIndex # 0
            => /\ nodesRef[heldIndex].x = moved[1]
               /\ nodesRef[heldIndex].y = moved[2]
               /\ state.nodes[heldIndex].id = drag[1]
               /\ state.nodes[heldIndex].x = moved[1]
               /\ state.nodes[heldIndex].y = moved[2])
    /\ [][\A i \in 1..Len(nodesRef) :
            (lastOp' = "tick" /\ nodesRef[i].fx # None /\ nodesRef[i].fy # None)
                => /\ nodesRef'[i].x = nodesRef[i].fx[1]
                   /\ nodesRef'[i].y = nodesRef[i].fy[1]]_vars

\* the held node sits at the point of the last movePin, in the working set and in the
\* snapshot, after a tick in which the forces were free to move it elsewhere
PinFidelityWitness ==
    /\ lastOp = "tick"
    /\ moved # None
    /\ heldIndex # 0
    /\ nodesRef[heldIndex].x = moved[1]
    /\ nodesRef[heldIndex].y = moved[2]
    /\ state.nodes[heldIndex].x = moved[1]
    /\ simulationRef.running

\* the incoming node carries no position at all
unpositioned(n) == n.x = None \/ n.y = None

\* C2 as stated: on a reconciliation a node that persists and carries no position
\* enters the new working set with exactly the x, y, vx, vy, fx, fy it had.
CarryOverExact ==
    [][\A i \in 1..Len(nodes') :
        (/\ lastOp' = "render"
         /\ ~noLayout(nodes', width', height')
         /\ unpositioned(nodes'[i])
         /\ FindIndex(nodesRef, nodes'[i].id) # 0)
            => nodesRef'[i] = nodesRef[FindIndex(nodesRef, nodes'[i].id)]]_vars

\* C2 amended: it enters with the vx, vy, fx, fy it had, and with the x, y it had
\* unless it is pinned: a pinned node enters at its pin.
CarryOver ==
    [][\A i \in 1..Len(nodes') :
        (/\ lastOp' = "render"
         /\ ~noLayout(nodes', width', height')
         /\ unpositioned(nodes'[i])
         /\ FindIndex(nodesRef, nodes'[i].id) # 0)
            => LET old == nodesRef[FindIndex(nodesRef, nodes'[i].id)]
                   new == nodesRef'[i]
               IN  /\ new.id = old.id
                   /\ new.vx = old.vx /\ new.vy = old.vy
                   /\ new.fx = old.fx /\ new.fy = old.fy
                   /\ new.x = (IF old.fx = None THEN old.x ELSE old.fx[1])
                   /\ new.y = (IF old.fy = None THEN old.y ELSE old.fy[1])]_vars

\* a reconciliation has just carried a moving node over
CarryOverWitness ==
    /\ lastOp = "render"
    /\ ~noLayout(nodes, width, height)
    /\ \E i \in 1..Len(nodes) :
        /\ unpositioned(nodes[i])
        /\ nodesRef[i].vx # 0
        /\ nodesRef[i].x # phyllotaxis(i - 1)[1]

\* C27: when the simulation is rebuilt with the node list it already had, only the
\* canvas size or the edge list being new, every node of the working set keeps the
\* position it had (a held node the position of its pin), whatever its input record
\* carries.
RebuildKeepsPosition ==
    [][(/\ lastOp' = "render"
        /\ nodes' = nodes
        /\ <<edges', width', height'>> # <<edges, width, height>>
        /\ ~noLayout(nodes, width, height)
        /\ ~noLayout(nodes', width', height'))
            => \A i \in 1..Len(nodes') :
                LET k == FindIndex(nodesRef, nodes'[i].id)
                IN  k # 0 =>
                        /\ nodesRef'[i].x = (IF nodesRef[k].fx = None THEN nodesRef[k].x
                                                                      ELSE nodesRef[k].fx[1])
                        /\ nodesRef'[i].y = (IF nodesRef[k].fy = None THEN nodesRef[k].y
                                                                      ELSE nodesRef[k].fy[1])]_vars

\* C3: on a reconciliation every incoming node with defined x and y enters the working
\* set at those coordinates with zero velocity and no pin.
SeededOverride ==
    (lastOp = "render" /\ ~noLayout(nodes, width, height))
        => \A i \in 1..Len(nodes) :
            (nodes[i].x # None /\ nodes[i].y # None)
                => nodesRef[i] = [id |-> nodes[i].id, x |-> nodes[i].x[1], y |-> nodes[i].y[1],
                                  vx |-> 0, vy |-> 0, fx |-> None, fy |-> None]

\* C4: on a visible canvas the working set holds the nodes of the input list, and so
\* does every snapshot emitted after the list changed.
IdsFollowInput ==
    (width # 0 /\ height # 0)
        => /\ IdsOf(nodesRef) = IdsOf(nodes)
           /\ lastOp = "tick" => IdsOf(state.nodes) = IdsOf(nodes)

\* C5: no replaced simulation keeps its timer, and a simulation stopped because its
\* inputs changed emits no tick afterwards.
NoDanglingTicks ==
    /\ ~orphanRunning
    /\ ~(lastOp = "tick" /\ simulationRef.cancelled)

resolvable(e) == e.source \in IdsOf(nodesRef) /\ e.target \in IdsOf(nodesRef)

\* C6: the edges of a run are exactly the input edges both of whose ends are nodes of
\* the working set, in the order of the input; a dangling edge is dropped and
\* forceLink never throws.
EdgeFiltering ==
    /\ ~linkError
    /\ (lastOp = "render" /\ ~noLayout(nodes, width, height))
        => /\ \A j \in 1..Len(edges) :
                resolvable(edges[j]) <=> \E i \in 1..Len(simEdges) : simEdges[i] = edges[j]
           /\ \A i \in 1..Len(simEdges) : \E j \in 1..Len(edges) : edges[j] = simEdges[i]
           /\ Len(simEdges) = Cardinality({j \in 1..Len(edges) : resolvable(edges[j])})
           /\ \A i1, i2 \in 1..Len(simEdges) :
                i1 < i2 => \E j1, j2 \in 1..Len(edges) :
                    j1 < j2 /\ edges[j1] = simEdges[i1] /\ edges[j2] = simEdges[i2]

\* a run that kept one edge of its input and dropped a dangling one
EdgeFilteringWitness ==
    /\ lastOp = "render"
    /\ ~noLayout(nodes, width, height)
    /\ simulationRef.running
    /\ Len(simEdges) = 1
    /\ Len(edges) = 2
    /\ \E j \in 1..Len(edges) : ~resolvable(edges[j])

\* C11: from beginPin(A) to endPin(A), while A is in the input list on a visible
\* canvas, the simulation runs with its alpha target at the floor of the drag, so
\* that ticks keep coming, whatever ticks, movePin calls and reconciliations come in
\* between.
HeldStaysWarm ==
    (drag # None /\ heldIndex # 0 /\ ~noLayout(nodes, width, height))
        => /\ simulationRef.running
           /\ simulationRef.alphaTarget >= AlphaTargetDrag

RECURSIVE sumAt(_, _)
sumAt(f, S) == IF S = {} THEN 0 ELSE LET i == CHOOSE i \in S : TRUE IN f[i] + sumAt(f, S \ {i})

seeded(n) == n.x # None /\ n.y # None
theRun == runStart[1]

CanvasCentreTarget ==
    (lastOp = "render" /\ runStart # None /\ \A i \in 1..Len(nodes) : ~seeded(nodes[i]))
        => samePoint(theRun.center, MeanPoint(width, height, 2))

\* C15: a run starts at alpha = 1 exactly when none of its nodes has a position, seeded
\* or carried over, and at alpha = 0.3 otherwise.
InitialAlphaByPosition ==
    [][(lastOp' = "render" /\ runStart' # None)
        => LET fresh == \A i \in 1..Len(nodes') :
                            ~seeded(nodes'[i]) /\ FindIndex(nodesRef, nodes'[i].id) = 0
           IN  runStart'[1].initialAlpha = (IF fresh THEN AlphaOne ELSE AlphaCool)]_vars

-----------------------------------------------------------------------------
(* Properties of the view state *)

\* C9: the reset leaves the view state at zoom 1 and pan (0, 0), from every zoom and
\* pan.
ResetRestores ==
    lastOp = "reset" => viewState = [zoom |-> ZoomOne, pan |-> Origin]

\* C28: no update of the view state is lost: a zoom operation leaves the pan as it
\* was, a pan operation leaves the zoom as it was, and after a handler that issues a
\* zoom update and then a pan update within one render the view state is the one the
\* two updates give when the second is applied to the result of the first.
NoViewUpdateLost ==
    [][/\ lastOp' \in {"wheel", "zoomIn", "zoomOut"} => viewState'.pan = viewState.pan
       /\ lastOp' = "panMove" => viewState'.zoom = viewState.zoom
       /\ lastOp' = "reset" =>
            viewState' = setPan(setZoom(viewState, ZoomOne), Origin)]_vars

\* C10: after every sequence of wheel steps, button steps and resets the zoom lies in
\* [MIN_ZOOM, MAX_ZOOM].
ZoomClamped ==
    /\ viewState.zoom >= MIN_ZOOM
    /\ viewState.zoom <= MAX_ZOOM

\* a zoom operation at a limit: the step was cut off by the clamp
ZoomClampedWitness ==
    \/ lastOp = "zoomOut" /\ viewState.zoom = MIN_ZOOM
    \/ lastOp = "wheel" /\ viewState.zoom = MAX_ZOOM


-----------------------------------------------------------------------------
(* Properties of the pointer on a node *)

\* C7: a pointer-down on a node and a pointer-up with every pointer position in between
\* under the movement threshold fire the selection callback once (with the click) and
\* neither beginPin nor endPin.
ClickSelectsOnce ==
    reach \in {"none", "under"}
        => /\ phase \in {"down", "up"} => calls = <<>>
           /\ lastOp = "click" => calls = <<"select">>

\* a click that ended a gesture with a small pointer movement selected the node
ClickSelectsOnceWitness ==
    /\ lastOp = "click"
    /\ reach = "under"
    /\ calls = <<"select">>
    /\ selectedNodeId = Some("a")

\* C8: a pointer-down on a node, a movement over the threshold and a pointer-up fire
\* one beginPin, then one endPin, and no selection, the click the browser delivers
\* after the pointer-up included.
DragNeverSelects ==
    reach = "over"
        => /\ lastOp = "mouseUp" => calls = <<"beginPin", "endPin">>
           /\ lastOp = "click" => calls = <<"beginPin", "endPin">>

nodeDragInProgress == phase = "down" /\ hasMoved

\* the shift away from the edge whose band (80 px) the pointer is in
awayFromEdge(rel, size) == IF rel < 80 THEN 8 ELSE IF rel > size - 80 THEN -8 ELSE 0
awayStep == <<awayFromEdge(pointer[1][1], width), awayFromEdge(pointer[1][2], height)>>

\* C16: while a node drag is in progress and the latest pointer position is in the
\* band of an edge, the auto-pan interval is on and each of its ticks shifts the pan by
\* 8 away from that edge; once a pointer move has left the band or the drag has ended,
\* the interval is off and no auto-pan tick comes.
AutoPanInBand ==
    /\ [](IF nodeDragInProgress /\ awayStep # Origin
          THEN autoPanInterval = Some(awayStep)
          ELSE autoPanInterval = None)
    /\ [][lastOp' = "autoPan"
            => /\ nodeDragInProgress
               /\ awayStep # Origin
               /\ viewState'.pan = <<viewState.pan[1] + awayStep[1],
                                     viewState.pan[2] + awayStep[2]>>
               /\ viewState'.zoom = viewState.zoom]_vars

\* two auto-pan ticks with the pointer held in the band of the right edge
AutoPanInBandWitness ==
    /\ lastOp = "autoPan"
    /\ nodeDragInProgress
    /\ pointer[1][1] > width - 80
    /\ viewState.pan = <<-16, 0>>

\* The pointer model starts from a state the hook reaches.
\* centerOnNode would move the pan if it ran on the selected node now
offCentre ==
    LET k == IF selectedNodeId = None THEN 0 ELSE FindIndex(state.nodes, selectedNodeId[1])
    IN  k # 0 /\ centers(state.nodes[k], viewState, width, height)

LinkingClickLinks ==
    lastOp = "link"
        => /\ \E i \in 1..Len(store.edges) :
                    joins(store.edges[i], storeOp.source, storeOp.target)
           /\ linkingMode = None
           /\ selectedNodeId # Some(storeOp.target)

-----------------------------------------------------------------------------
(* Properties of the task store *)

Mirror(key) == CASE key = "a:b" -> "b:a" [] key = "b:a" -> "a:b" [] OTHER -> key
\* the operation a mutation leaves in the queue: its type, its entity, its entity ids
queued(name, entityId) ==
    CASE name = "addTask" -> [type |-> "create", entity |-> "task", ids |-> {entityId}]
      [] name = "updateTask" -> [type |-> "update", entity |-> "task", ids |-> {entityId}]
      [] name = "deleteTask" -> [type |-> "delete", entity |-> "task", ids |-> {entityId}]
      [] name = "addEdge" -> [type |-> "create", entity |-> "edge", ids |-> {"temp"}]
      [] name = "deleteEdge" ->
            [type |-> "delete", entity |-> "edge", ids |-> {entityId, Mirror(entityId)}]
Mutations == {"addTask", "updateTask", "deleteTask", "addEdge", "deleteEdge"}

MiniMapRoundTrip ==
    /\ \A p \in WorldPoints :
            LET f == miniMapFrame(state.nodes)
                r == handleMiniMapClick(toMiniMap(p, f), f, viewState, width, height)
            IN  /\ r.world[1].d > 0
                /\ r.world[1].n = p[1] * r.world[1].d
                /\ r.world[2].n = p[2] * r.world[2].d
    /\ lastOp = "miniMapClick"
            => /\ worldToScreen(miniMap[1].point[1], viewState.pan[1], viewState.zoom)
                    = width \div 2
               /\ worldToScreen(miniMap[1].point[2], viewState.pan[2], viewState.zoom)
                    = height \div 2

\* zoomed in, a click on the projection of a point left of both nodes, which lie on a
\* vertical line
MiniMapRoundTripWitness ==
    /\ lastOp = "miniMapClick"
    /\ miniMap[1].point = <<-CellSize, CellSize>>
    /\ miniMap[1].world[1].n = -CellSize * miniMap[1].world[1].d
    /\ viewState.zoom > ZoomOne
    /\ Len(state.nodes) = 2
    /\ state.nodes[1].x = state.nodes[2].x
    /\ state.nodes[1].y # state.nodes[2].y

PanOrDrag ==
    /\ [](~(isPanning /\ (phase = "down" \/ isDragging)))
    /\ [][lastOp' = "mouseDown" => ~isPanning' /\ panStart' = panStart]_vars
    /\ [][phase = "down" /\ viewState'.pan # viewState.pan => lastOp' = "autoPan"]_vars

\* an auto-pan tick has moved the pan during a drag
PanOrDragWitness ==
    /\ lastOp = "autoPan"
    /\ phase = "down"
    /\ isDragging
    /\ ~isPanning
    /\ downView[1].pan # viewState.pan

\* C26: the click that ends a background pan gesture in which the pointer moved leaves
\* the selection as it is.
PanKeepsSelection ==
    [][lastOp' = "backgroundClick" /\ calls = <<"setPan">>
        => selectedNodeId' = selectedNodeId]_vars

\* C22: a call of autoArrange while offline, or one whose request fails, is rejected
\* and leaves the tasks of the store, their x and y included, as they were.
ArrangeFailureKeeps ==
    [][lastOp' = "autoArrange" /\ (~isOnline \/ storeOp'.failed)
        => /\ storeOp'.rejected
           /\ Len(store'.tasks) = Len(store.tasks)
           /\ \A i \in 1..Len(store.tasks) :
                /\ store'.tasks[i].id = store.tasks[i].id
                /\ store'.tasks[i].x = store.tasks[i].x
                /\ store'.tasks[i].y = store.tasks[i].y]_vars

\* offline, a call with positions to hand has been rejected over tasks that an earlier
\* call has placed
ArrangeFailureKeepsWitness ==
    /\ lastOp = "autoArrange"
    /\ ~isOnline
    /\ ~storeOp.failed
    /\ storeOp.rejected
    /\ store.tasks[1].x = Some(CellSize)
    /\ store.tasks[2].x = None

\* the sync pass that has taken the step of this moment
stepping == CHOOSE k \in 1..Len(syncPasses) : syncPasses[k].caller = storeOp'.entityId
inQueue(queue, op) == \E i \in 1..Len(queue) : queue[i].id = op.id

OneEdgePerPair ==
    \A i \in 1..Len(store.edges), j \in 1..Len(store.edges) :
        i # j => ~joins(store.edges[i], store.edges[j].source, store.edges[j].target)

\* C30: at most one sync pass is in progress, and isSyncingRef tells whether one is; a
\* call of syncPendingOperations during a pass starts no pass and leaves the store,
\* the queue and the pass in progress as they are.
OnePassAtATime ==
    /\ [](Len(syncPasses) <= 1 /\ isSyncingRef = (Len(syncPasses) = 1))
    /\ [][lastOp' = "syncCall" /\ Len(syncPasses) >= 1
            => syncPasses' = syncPasses /\ store' = store]_vars

\* forceSync has called while the pass of onOnline was between two replays
OnePassAtATimeWitness ==
    /\ lastOp = "syncCall"
    /\ storeOp.entityId = "forceSync"
    /\ Len(syncPasses) = 1
    /\ syncPasses[1].caller = "onOnline"
    /\ syncPasses[1].i = 2
    /\ Len(syncPasses[1].pending) = 2

MountedReached ==
    /\ nodesRef = <<MountedNode>>
    /\ state = [nodes |-> snapshot(<<MountedNode>>), edges |-> <<>>]
    /\ simulationRef = NewSimulation
    /\ nodes = <<InputNode("a", <<None, None>>)>>
    /\ edges = <<Edge("a", "b")>>
    /\ width = CanvasSize /\ height = CanvasSize
    /\ hasCleanup /\ ~orphanRunning /\ ~linkError
    /\ drag = None /\ moved = None /\ lastOp = "tick" /\ runStart = None

====
